---------------------------- MODULE Spec2Model ----------------------------
(***************************************************************************)
(* Type inference core: the type term model (types.rs), the resolution     *)
(* helper (resolution.rs), the substitution helper (substitution.rs), the  *)
(* inference walker (inference.rs) and the unifier it feeds.               *)
(***************************************************************************)
EXTENDS Integers, Sequences, FiniteSets, TLC

VARIABLES
    prog,       \* pipeline: index of the program being compiled
    initial_id,   \* the count InferenceContext::new was given
    phase,      \* position inside the pipeline / operation
    ctx,        \* the driver's InferenceContext
    last,       \* the last ctx.transient(..) call: its result and the context
                \* it was made on
    calls,      \* number of walker calls made on ctx so far
    cidx,       \* index of the next constraint the unifier processes
    uni,        \* unification context: substitution env, id counter, errors
    final,      \* TypeId -> outcome of resolving that entry
    tyA, tyB,   \* inputs of the operations on single types
    out         \* outcomes of the operations on single types

vars == <<prog, initial_id, phase, ctx, last, calls, cidx, uni, final, tyA, tyB, out>>

(***************************************************************************)
(* Bounds of the model.                                                    *)
(***************************************************************************)
MaxDepth == 14      \* nesting of infer calls the walker's stack can hold
MaxStrip == 4       \* stub layers followed by one strip loop
MaxFuel == 8        \* nesting of substitute / unify calls
MaxCalls == 2       \* walker calls the driver makes on one context
MaxInitialId == 1   \* initial_id_count handed to InferenceContext::new
MaxNodes == 12      \* types one IndirectSubtreeIterator yields

(***************************************************************************)
(* types.rs: the Type sum.  Every type is a record with the same fields:   *)
(*   k     the variant                                                     *)
(*   p     PrimitiveType / debug_name of a TypeVariable / link id of the   *)
(*         path of a Stub / ObjectKind ("Open", "Closed")                  *)
(*   ch    Pointer/Reference pointee, Tuple elements, Object field types   *)
(*         (in key order), Signature parameter types                       *)
(*   names Object field names, sorted (BTreeMap keys); a name is a natural *)
(*         number standing for the string at that place in string order    *)
(*   id    substitution id (Variable, Open object), registry id (Union);   *)
(*         -1 otherwise                                                    *)
(*   ret   Signature return type, as a sequence of length 1                *)
(*   ar    ArityMode: -1 Fixed, n >= 0 Variadic{minimum_required = n}      *)
(***************************************************************************)
Ty(k, p, ch, names, id, ret, ar) ==
    [k |-> k, p |-> p, ch |-> ch, names |-> names, id |-> id, ret |-> ret, ar |-> ar]

Primitive(p) == Ty("Primitive", p, <<>>, <<>>, -1, <<>>, -1)
Bool == Primitive("Bool")
Char == Primitive("Char")
CString == Primitive("CString")
Integer(bit_width, signed) ==
    Primitive("Integer" \o bit_width \o (IF signed THEN "s" ELSE "u"))
Real(bit_width) == Primitive("Real" \o bit_width)
I64 == Integer("64", TRUE)
U64 == Integer("64", FALSE)
I32 == Integer("32", TRUE)
Real32 == Real("32")
Unit == Ty("Unit", "", <<>>, <<>>, -1, <<>>, -1)
Opaque == Ty("Opaque", "", <<>>, <<>>, -1, <<>>, -1)
Pointer(t) == Ty("Pointer", "", <<t>>, <<>>, -1, <<>>, -1)
Reference(t) == Ty("Reference", "", <<t>>, <<>>, -1, <<>>, -1)
Tuple(ts) == Ty("Tuple", "", ts, <<>>, -1, <<>>, -1)
Stub(link) == Ty("Stub", link, <<>>, <<>>, -1, <<>>, -1)
Variable(id, name) == Ty("Variable", name, <<>>, <<>>, id, <<>>, -1)
Union(rid) == Ty("Union", "", <<>>, <<>>, rid, <<>>, -1)
ObjectClosed(names, ts) == Ty("Object", "Closed", ts, names, -1, <<>>, -1)
ObjectOpen(id, names, ts) == Ty("Object", "Open", ts, names, id, <<>>, -1)
Signature(ps, r, ar) == Ty("Signature", "", ps, <<>>, -1, <<r>>, ar)

Fixed == -1
Variadic(n) == n

\* Result<Type, _>: st is "ok", "err" (an Err value), "panic" (unwrap, todo!,
\* unreachable!, a failed assert!) or "diverge" (the call does not return).
Ok(t) == [st |-> "ok", v |-> t, e |-> ""]
Err(e) == [st |-> "err", v |-> Unit, e |-> e]
Panic(e) == [st |-> "panic", v |-> Unit, e |-> e]
Diverge == [st |-> "diverge", v |-> Unit, e |-> "does not return"]

\* `let v = ...; body`: the value is computed once, before the statements
\* after the binding run, and they see it.
With(v, Body(_)) == IF v = v THEN Body(v) ELSE Body(v)


(***************************************************************************)
(* The AST (an external collaborator, read-only).  Every node carries its  *)
(* pre-assigned type ids; optional hints are sequences of length 0 or 1.   *)
(***************************************************************************)
None == <<>>
Some(x) == <<x>>

Expr(x) == [node |-> "Expr", inner |-> x]
Item(x) == [node |-> "Item", inner |-> x]
LiteralBool(tid) == [node |-> "Literal", kind |-> "Bool", type_id |-> tid]
LiteralChar(tid) == [node |-> "Literal", kind |-> "Char", type_id |-> tid]
LiteralString(tid) == [node |-> "Literal", kind |-> "String", type_id |-> tid]
LiteralNullptr(tid, hint) ==
    [node |-> "Literal", kind |-> "Nullptr", type_id |-> tid, type_hint |-> hint]
LiteralNumber(tid, is_real, hint) ==
    [node |-> "Literal", kind |-> "Number", type_id |-> tid, is_real |-> is_real,
     bit_width |-> "64", type_hint |-> hint]
Parameter(tid, hint) == [node |-> "Parameter", type_id |-> tid, type_hint |-> hint]
SignatureAst(params, ret_hint, ret_tid, variadic) ==
    [parameters |-> params, return_type_hint |-> ret_hint, return_type_id |-> ret_tid,
     is_variadic |-> variadic]
Function(tid, sig, body) ==
    [node |-> "Function", type_id |-> tid, signature |-> sig, body |-> body]
Closure(tid, sig, captures, body) ==
    [node |-> "Closure", type_id |-> tid, signature |-> sig, captures |-> captures,
     body |-> body]
ClosureCapture(tid, link) ==
    [node |-> "ClosureCapture", type_id |-> tid, target_link_id |-> link]
UnionInstance(tid, link, kind, value) ==
    [node |-> "UnionInstance", type_id |-> tid, link_id |-> link, kind |-> kind,
     value |-> value]
ForeignFunction(tid, sig) == [node |-> "ForeignFunction", type_id |-> tid, signature |-> sig]
ReferenceTo(tid, link) == [node |-> "Reference", type_id |-> tid, link_id |-> link]
Argument(tid, value) == [type_id |-> tid, value |-> value]
CallSite(tid, callee_tid, callee, args) ==
    [node |-> "CallSite", type_id |-> tid, callee_type_id |-> callee_tid,
     callee_expr |-> callee, arguments |-> args]
ObjectAccess(tid, base_tid, field, object) ==
    [node |-> "ObjectAccess", type_id |-> tid, base_expr_type_id |-> base_tid,
     field_name |-> field, object |-> object]
ObjectLit(tid, names, fields) ==
    [node |-> "Object", type_id |-> tid, names |-> names, fields |-> fields]
TupleLit(tid, elements) == [node |-> "Tuple", type_id |-> tid, elements |-> elements]
TupleIndex(tid, tuple_tid, tuple, index) ==
    [node |-> "TupleIndex", type_id |-> tid, indexed_tuple_type_id |-> tuple_tid,
     indexed_tuple |-> tuple, index |-> index]
BinaryOp(tid, operand_tid, op, l, r) ==
    [node |-> "BinaryOp", type_id |-> tid, operand_type_id |-> operand_tid,
     operator |-> op, left_operand |-> l, right_operand |-> r]

\* Link ids of the type definitions.
LAlias == "Alias"           \* type Alias = bool
LAlias2 == "Alias2"         \* type Alias2 = Alias
LPtrAlias == "PtrAlias"     \* type PtrAlias = *Alias
LDangling == "Dangling"     \* no registry entry
LCyclic == "Cyclic"         \* type Cyclic = Cyclic
LUnion == "UnionT"          \* a union declaration
LList == "List"             \* type List = *List

\* Link ids of the items of the programs below.
LAliasFn == "alias_fn"
LFirst == "first"
LFirstO == "first.o"
LPrintf == "printf"
LFact == "fact"
LFactN == "fact.n"
LGeneric == "generic"
LNoItem == "missing"       \* a reference whose link has no registry entry
LAliasDangling == "AliasDangling"   \* type AliasDangling = Dangling
LPuts == "puts"
LVariant == "Shape.Circle"          \* a variant of the union Shape
LId == "id"
LIdX == "id.x"
LIdent == "ident"
LIdentX == "ident.x"

\* fn alias_fn(): Alias = true
AliasFn == Function(1, SignatureAst(<<>>, Some(Stub(LAlias)), 2, FALSE), Expr(LiteralBool(3)))

\* (true, 'c').0
TupleIdx ==
    TupleIndex(4, 5, Expr(TupleLit(6, <<Expr(LiteralBool(7)), Expr(LiteralChar(8))>>)), 0)

\* fn first(o): i64 = o.x
FirstO == Parameter(11, None)
First ==
    Function(10, SignatureAst(<<FirstO>>, Some(I64), 12, FALSE),
             Expr(ObjectAccess(13, 14, 1, Expr(ReferenceTo(15, LFirstO)))))

\* first({y: true, x: 1})   (field names: x is 1, y is 2)
CallFirst ==
    CallSite(16, 17, Expr(ReferenceTo(18, LFirst)),
             <<Argument(22, Expr(ObjectLit(19, <<2, 1>>,
                   <<Expr(LiteralBool(21)), Expr(LiteralNumber(20, FALSE, None))>>)))>>)

\* foreign fn printf(fmt: cstring, ...): i32
Printf ==
    ForeignFunction(30, SignatureAst(<<Parameter(31, Some(CString))>>, Some(I32), 32, TRUE))

\* printf("..", 1, "..")
CallPrintf ==
    CallSite(33, 34, Expr(ReferenceTo(35, LPrintf)),
             <<Argument(37, Expr(LiteralString(36))),
               Argument(39, Expr(LiteralNumber(38, FALSE, Some(I32)))),
               Argument(27, Expr(LiteralString(26)))>>)

\* printf(1)
CallPrintfBadFormat ==
    CallSite(43, 44, Expr(ReferenceTo(45, LPrintf)),
             <<Argument(47, Expr(LiteralNumber(46, FALSE, Some(I32))))>>)

\* printf()
CallPrintfNoArgs == CallSite(40, 41, Expr(ReferenceTo(42, LPrintf)), <<>>)

\* fn fact(n: i64): i64 = fact(n)
FactN == Parameter(51, Some(I64))
Fact ==
    Function(50, SignatureAst(<<FactN>>, Some(I64), 52, FALSE),
             Expr(CallSite(53, 54, Expr(ReferenceTo(55, LFact)),
                           <<Argument(57, Expr(ReferenceTo(56, LFactN)))>>)))

\* 1 + 2
AddNumbers ==
    BinaryOp(60, 61, "Add", Expr(LiteralNumber(62, FALSE, None)),
             Expr(LiteralNumber(63, FALSE, None)))

\* fn generic(x): bool = true
Generic ==
    Function(70, SignatureAst(<<Parameter(71, None)>>, Some(Bool), 72, FALSE),
             Expr(LiteralBool(73)))

\* {x: true}.x
AccessX ==
    ObjectAccess(80, 81, 1, Expr(ObjectLit(82, <<1>>, <<Expr(LiteralBool(83))>>)))

\* fn id(x) = x
IdX == Parameter(101, None)
IdFn ==
    Function(100, SignatureAst(<<IdX>>, None, 102, FALSE), Expr(ReferenceTo(103, LIdX)))

\* id(true)
CallId ==
    CallSite(104, 105, Expr(ReferenceTo(106, LId)), <<Argument(108, Expr(LiteralBool(107)))>>)

\* fn ident(x): bool = x
IdentX == Parameter(111, None)
IdentFn ==
    Function(110, SignatureAst(<<IdentX>>, Some(Bool), 112, FALSE),
             Expr(ReferenceTo(113, LIdentX)))

\* ident(true)
CallIdent ==
    CallSite(114, 115, Expr(ReferenceTo(116, LIdent)),
             <<Argument(118, Expr(LiteralBool(117)))>>)

\* A reference whose link has no entry in the symbol table.
UnboundReference == ReferenceTo(120, LNoItem)

\* true(): the callee is not a callable item.
CallLiteral == CallSite(122, 123, Expr(LiteralBool(124)), <<>>)

\* nullptr hinted with an alias that the symbol table does not declare.
DanglingNullptr == LiteralNullptr(126, Some(Stub(LDangling)))

\* |x|: bool = true, capturing the parameter x of ident.
ClosureLit ==
    Closure(130, SignatureAst(<<Parameter(131, None)>>, Some(Bool), 132, FALSE),
            <<ClosureCapture(133, LIdentX)>>, Expr(LiteralBool(134)))

\* alias_fn()
CallAliasFn == CallSite(150, 151, Expr(ReferenceTo(152, LAliasFn)), <<>>)

\* foreign fn puts(s: cstring): i32
Puts ==
    ForeignFunction(160, SignatureAst(<<Parameter(161, Some(CString))>>, Some(I32), 162, FALSE))

\* puts("..")
CallPuts ==
    CallSite(163, 164, Expr(ReferenceTo(165, LPuts)),
             <<Argument(167, Expr(LiteralString(166)))>>)

\* 1i32 % 2i32, 1 < 2, 1 in 2
ModNumbers ==
    BinaryOp(170, 171, "Modulo", Expr(LiteralNumber(172, FALSE, Some(I32))),
             Expr(LiteralNumber(173, FALSE, Some(I32))))
LessNumbers ==
    BinaryOp(174, 175, "LessThan", Expr(LiteralNumber(176, FALSE, None)),
             Expr(LiteralNumber(177, FALSE, None)))
InNumbers ==
    BinaryOp(178, 179, "In", Expr(LiteralNumber(180, FALSE, None)),
             Expr(LiteralNumber(181, FALSE, None)))

\* Shape.Circle(true), Shape.Circle("..") and Shape.Circle as instances of a
\* union variant.
InstanceValue == UnionInstance(182, LVariant, "Value", Expr(LiteralBool(183)))
InstanceString == UnionInstance(184, LVariant, "String", None)
InstanceSingleton == UnionInstance(185, LVariant, "Singleton", None)

\* The nodes a driver hands to the walker.
Roots ==
    << Expr(TupleIdx), Expr(CallFirst), Item(Fact), Item(Generic),
       Expr(AccessX), Expr(LiteralNullptr(90, None)) >>

(***************************************************************************)
(* The symbol table (an external collaborator, read-only):                 *)
(* LinkId -> RegistryItem.                                                 *)
(***************************************************************************)
TypeDef(body) == [item |-> "TypeDef", body |-> body]
RegistryItem(node) == [item |-> node.node, ast |-> node]

SymbolTable ==
    (LAlias :> TypeDef(Bool)) @@ (LAlias2 :> TypeDef(Stub(LAlias)))
    @@ (LPtrAlias :> TypeDef(Pointer(Stub(LAlias))))
    @@ (LCyclic :> TypeDef(Stub(LCyclic)))
    @@ (LAliasDangling :> TypeDef(Stub(LDangling)))
    @@ (LUnion :> [item |-> "Union", body |-> Union(0)])
    @@ (LList :> TypeDef(Pointer(Stub(LList))))
    @@ (LAliasFn :> RegistryItem(AliasFn)) @@ (LFirst :> RegistryItem(First))
    @@ (LFirstO :> RegistryItem(FirstO)) @@ (LPrintf :> RegistryItem(Printf))
    @@ (LFact :> RegistryItem(Fact)) @@ (LFactN :> RegistryItem(FactN))
    @@ (LGeneric :> RegistryItem(Generic))
    @@ (LPuts :> RegistryItem(Puts))
    @@ (LVariant :> [item |-> "UnionVariant", union |-> LUnion])
    @@ (LId :> RegistryItem(IdFn)) @@ (LIdX :> RegistryItem(IdX))
    @@ (LIdent :> RegistryItem(IdentFn)) @@ (LIdentX :> RegistryItem(IdentX))

\* SymbolTable::follow_link
follow_link(link) == IF link \in DOMAIN SymbolTable THEN Some(SymbolTable[link]) ELSE None

(***************************************************************************)
(* types.rs: the operations of the type term model.                        *)
(***************************************************************************)
is_a_meta(t) == t.k \in {"Stub", "Variable"}

\* A comparison that never recognises the variable.
is_same_type_variable_as_never(t, id) == FALSE

is_same_type_variable_as(t, id) == t.k = "Variable" /\ t.id = id

\* Type::get_inner_types for every variant but Union (todo!() there).
get_inner_types(t) ==
    IF t.k \in {"Pointer", "Object", "Tuple", "Reference", "Signature"} THEN t.ch ELSE <<>>

RECURSIVE FlattenSubtrees(_, _)
RECURSIVE immediate_subtree(_)
\* ImmediateSubtreeIterator: each yielded type's own inner types are pushed on
\* the stack before it is returned, so the traversal is a pre-order walk of
\* the whole subtree below the root.
immediate_subtree(t) == FlattenSubtrees(get_inner_types(t), 1)

FlattenSubtrees(ts, i) ==
    IF i > Len(ts) THEN <<>>
    ELSE <<ts[i]>> \o immediate_subtree(ts[i]) \o FlattenSubtrees(ts, i + 1)

\* Type::get_immediate_subtree_iter, collected: the types the iterator
\* yields, or the panic of get_inner_types on a Union (todo!()) reached at the
\* root or at a yielded type.
get_immediate_subtree_iter(t) ==
    IF t.k = "Union" \/ \E i \in 1..Len(immediate_subtree(t)) : immediate_subtree(t)[i].k = "Union"
    THEN Panic("todo: union inner types")
    ELSE Ok(immediate_subtree(t))

\* Position of the first element of s satisfying one of the kinds, or 0.
FirstOfKind(s, kinds) ==
    IF \E i \in 1..Len(s) : s[i].k \in kinds
    THEN CHOOSE i \in 1..Len(s) : s[i].k \in kinds /\ \A j \in 1..(i - 1) : s[j].k \notin kinds
    ELSE 0

\* Type::is_immediate_subtree_concrete: "true", "false", or "panic" when the
\* iterator reaches get_inner_types of a Union (todo!()) before all() has
\* seen a meta type.
is_immediate_subtree_concrete(t) ==
    IF is_a_meta(t) THEN "false"
    ELSE IF t.k = "Union" THEN "panic"
    ELSE With(immediate_subtree(t), LAMBDA sub :
         With(FirstOfKind(sub, {"Stub", "Variable"}), LAMBDA m :
         With(FirstOfKind(sub, {"Union"}), LAMBDA u :
             IF u # 0 /\ (m = 0 \/ u < m) THEN "panic"
             ELSE IF m # 0 THEN "false" ELSE "true")))

RECURSIVE StripLoop(_, _)
StripLoop(link, fuel) ==
    IF fuel = 0 THEN Diverge
    ELSE With(follow_link(link), LAMBDA entry :
         IF entry = None THEN Err("SymbolTableMissingEntry")
         ELSE With(entry[1], LAMBDA target :
              IF target.item = "Union" THEN Panic("todo: union stub target")
              ELSE IF target.item # "TypeDef" THEN Panic("unreachable: stub target")
              ELSE IF target.body.k = "Stub" THEN StripLoop(target.body.p, fuel - 1)
              ELSE Ok(target.body)))

\* A strip that follows one link only and returns the body found there.
strip_one_stub_layer(stub) ==
    With(follow_link(stub.p), LAMBDA entry :
        IF entry = None THEN Err("SymbolTableMissingEntry")
        ELSE IF entry[1].item # "TypeDef" THEN Panic("stub target")
        ELSE Ok(entry[1].body))

\* StubType::strip_all_stub_layers
strip_all_stub_layers(stub) == StripLoop(stub.p, MaxStrip)

\* Type::try_strip_all_stub_layers
try_strip_all_stub_layers(t) ==
    IF t.k = "Stub" THEN strip_all_stub_layers(t) ELSE Ok(t)

\* First outcome of rs that is not "ok" (the one `?` returns), or 0.
FirstBad(rs) ==
    IF \E i \in 1..Len(rs) : rs[i].st # "ok"
    THEN CHOOSE i \in 1..Len(rs) : rs[i].st # "ok" /\ \A j \in 1..(i - 1) : rs[j].st = "ok"
    ELSE 0

Values(rs) == [i \in 1..Len(rs) |-> rs[i].v]

\* IndirectSubtreeIterator, started with the root on its stack: every type
\* it yields (stubs stripped), or the first strip error.
RECURSIVE IndirectLoop(_, _, _)
IndirectLoop(stack, acc, fuel) ==
    IF stack = <<>> THEN [st |-> "ok", seq |-> acc]
    ELSE IF fuel = 0 THEN [st |-> "diverge", seq |-> acc]
    ELSE With(try_strip_all_stub_layers(stack[Len(stack)]), LAMBDA stripped :
             IF stripped.st # "ok" THEN [st |-> stripped.st, seq |-> acc]
             ELSE IF stripped.v.k = "Union" THEN [st |-> "panic", seq |-> acc]
             ELSE IndirectLoop(SubSeq(stack, 1, Len(stack) - 1)
                                   \o get_inner_types(stripped.v),
                               Append(acc, stripped.v), fuel - 1))

\* An iterator that yields the root and stops.
indirect_subtree_root_only(t) == [st |-> "ok", seq |-> <<t>>]

indirect_subtree(t) == IndirectLoop(<<t>>, <<>>, MaxNodes)


(***************************************************************************)
(* resolution.rs: BaseResolutionHelper.  The helper holds the symbol table *)
(* only; no substitution environment reaches it.                           *)
(***************************************************************************)
RECURSIVE resolve(_, _)

resolve_stub_type(stub_type, fuel) ==
    With(strip_all_stub_layers(stub_type), LAMBDA stripped_target :
        IF stripped_target.st = "err" THEN Err("StubTypeMissingSymbolTableEntry")
        ELSE IF stripped_target.st # "ok" THEN stripped_target
        ELSE resolve(stripped_target.v, fuel - 1))

resolve_within_subtree(ty, fuel) ==
    IF ty.k \in {"Pointer", "Reference", "Tuple", "Object"} THEN
        With([i \in 1..Len(ty.ch) |-> resolve(ty.ch[i], fuel - 1)], LAMBDA rs :
        With(FirstBad(rs), LAMBDA bad :
            IF bad # 0 THEN rs[bad] ELSE Ok([ty EXCEPT !.ch = Values(rs)])))
    ELSE IF ty.k = "Signature" THEN
        With(resolve(ty.ret[1], fuel - 1), LAMBDA return_type :
        With([i \in 1..Len(ty.ch) |-> resolve(ty.ch[i], fuel - 1)], LAMBDA rs :
        With(FirstBad(rs), LAMBDA bad :
            IF return_type.st # "ok" THEN return_type
            ELSE IF bad # 0 THEN rs[bad]
            ELSE Ok([ty EXCEPT !.ch = Values(rs), !.ret = <<return_type.v>>]))))
    ELSE Panic("unreachable: type should have been a type constructor")

\* A resolve that follows one stub layer and leaves the rest as it is.
resolve_one_layer(ty, fuel) ==
    IF ty.k = "Stub" /\ follow_link(ty.p) # None /\ follow_link(ty.p)[1].item = "TypeDef"
    THEN Ok(follow_link(ty.p)[1].body)
    ELSE Ok(ty)

resolve(ty, fuel) ==
    IF fuel = 0 THEN Diverge
    ELSE With(is_immediate_subtree_concrete(ty), LAMBDA concrete :
         IF concrete = "panic" THEN Panic("todo: union inner types")
         ELSE IF concrete = "true" THEN Ok(ty)
         ELSE With(IF ty.k = "Stub" THEN resolve_stub_type(ty, fuel)
                   ELSE resolve_within_subtree(ty, fuel), LAMBDA resolution :
                  IF resolution.st # "ok" THEN resolution
                  ELSE IF is_immediate_subtree_concrete(resolution.v) = "true"
                       THEN resolution
                       ELSE Panic("resolved type should be concrete")))

\* ResolutionHelper::resolve_by_id
TypeResolutionError(type_resolution_error) ==
    <<"TypeResolutionError", type_resolution_error>>

\* A lookup that takes the unit type for an id the type environment lacks.
resolve_by_id_or_unit(type_env, type_id) ==
    IF type_id \notin DOMAIN type_env THEN Ok(Unit)
    ELSE With(resolve(type_env[type_id], MaxFuel), LAMBDA r :
             IF r.st = "err" THEN Err(TypeResolutionError(r.e)) ELSE r)

resolve_by_id(type_env, type_id) ==
    IF type_id \notin DOMAIN type_env THEN Err("MissingEntryForTypeId")
    ELSE With(resolve(type_env[type_id], MaxFuel), LAMBDA r :
             IF r.st = "err" THEN Err(TypeResolutionError(r.e)) ELSE r)

(***************************************************************************)
(* substitution.rs: UnificationSubstitutionHelper over a substitution      *)
(* environment env (SubstitutionId -> Type).                               *)
(***************************************************************************)
RECURSIVE substitute(_, _, _)

substitute_signature_type(signature_type, env, fuel) ==
    With([i \in 1..Len(signature_type.ch) |->
              substitute(signature_type.ch[i], env, fuel - 1)], LAMBDA rs :
    With(FirstBad(rs), LAMBDA bad :
    With(substitute(signature_type.ret[1], env, fuel - 1), LAMBDA return_type :
        IF bad # 0 THEN rs[bad]
        ELSE IF return_type.st # "ok" THEN return_type
        ELSE Ok([signature_type EXCEPT !.ch = Values(rs), !.ret = <<return_type.v>>]))))

\* substitute_object_type without the lookup of the open id.
substitute_object_type_fields_only(object_type, env, fuel) ==
    With([i \in 1..Len(object_type.ch) |->
              substitute(object_type.ch[i], env, fuel - 1)], LAMBDA rs :
    With(FirstBad(rs), LAMBDA bad :
        IF bad # 0 THEN rs[bad] ELSE Ok([object_type EXCEPT !.ch = Values(rs)])))

substitute_object_type(object_type, env, fuel) ==
    IF object_type.p = "Open" /\ object_type.id \in DOMAIN env
       /\ env[object_type.id].k # "Object"
    THEN Panic("assert_extract: Type::Object")
    ELSE IF object_type.p = "Open" /\ object_type.id \in DOMAIN env
            /\ (env[object_type.id].p = "Closed"
                \/ env[object_type.id].id # object_type.id)
    THEN substitute(env[object_type.id], env, fuel - 1)
    ELSE With([i \in 1..Len(object_type.ch) |->
                   substitute(object_type.ch[i], env, fuel - 1)], LAMBDA rs :
         With(FirstBad(rs), LAMBDA bad :
             IF bad # 0 THEN rs[bad] ELSE Ok([object_type EXCEPT !.ch = Values(rs)])))

substitute(ty, env, fuel) ==
    IF fuel = 0 THEN Diverge
    ELSE With(try_strip_all_stub_layers(ty), LAMBDA stripped :
         IF stripped.st = "err" THEN Err("TypeStripError")
         ELSE IF stripped.st # "ok" THEN stripped
         ELSE With(stripped.v, LAMBDA stripped_type :
              IF stripped_type.k \in {"Pointer", "Reference", "Tuple"} THEN
                  With([i \in 1..Len(stripped_type.ch) |->
                            substitute(stripped_type.ch[i], env, fuel - 1)], LAMBDA rs :
                  With(FirstBad(rs), LAMBDA bad :
                      IF bad # 0 THEN rs[bad]
                      ELSE Ok([stripped_type EXCEPT !.ch = Values(rs)])))
              ELSE IF stripped_type.k = "Object"
                   THEN substitute_object_type(stripped_type, env, fuel)
              ELSE IF stripped_type.k = "Signature"
                   THEN substitute_signature_type(stripped_type, env, fuel)
              ELSE IF stripped_type.k = "Stub" THEN Panic("todo: polymorphic stub")
              ELSE IF stripped_type.k = "Variable"
                      /\ (stripped_type.id \notin DOMAIN env
                          \/ ~is_same_type_variable_as(env[stripped_type.id],
                                                       stripped_type.id))
                   THEN IF stripped_type.id \notin DOMAIN env
                        THEN Panic("unwrap on None")
                        ELSE substitute(env[stripped_type.id], env, fuel - 1)
              ELSE IF stripped_type.k = "Union" THEN Panic("todo: union")
              \* `_ => Ok(ty.to_owned())`: the type as given, not the stripped one.
              ELSE Ok(ty)))


(***************************************************************************)
(* inference.rs: InferenceContext.  A context is a record                  *)
(*   constraints             Vec<Constraint>, each Equality(a, b)          *)
(*   counter                 the IdGenerator's counter                     *)
(*   type_var_substitutions  SubstitutionId -> Type                        *)
(*   type_env                TypeId -> Type                                *)
(*   st                      "ok", or how the walk ended: "assert" (a      *)
(*                           failed assert!), "panic" (unwrap, expect),    *)
(*                           "diverge" (the stack is exhausted)            *)
(*   issued                  history: the ids next_substitution_id handed  *)
(*                           out in this context and in the children       *)
(*                           merged into it, in order                      *)
(* and an InferenceResultData is the same record with ty and id_count.     *)
(***************************************************************************)
EmptyMap == <<>>
Insert(map, key, value) == (key :> value) @@ map
Equality(a, b) == [a |-> a, b |-> b]

\* InferenceContext::new
new_context(initial_id_count) ==
    [constraints |-> <<>>, counter |-> initial_id_count,
     type_var_substitutions |-> EmptyMap, type_env |-> EmptyMap,
     st |-> "ok", issued |-> <<>>]

\* InferenceContext::inherit
inherit(self) ==
    [constraints |-> <<>>, counter |-> self.counter,
     type_var_substitutions |-> EmptyMap, type_env |-> EmptyMap,
     st |-> "ok", issued |-> <<>>]

\* IdGenerator::next_substitution_id: the counter's value, then incremented.
next_substitution_id(self) ==
    [c |-> [self EXCEPT !.counter = @ + 1, !.issued = Append(@, self.counter)],
     id |-> self.counter]

\* create_type_variable without the insert into type_var_substitutions.
create_type_variable_unregistered(self, debug_name) ==
    With(next_substitution_id(self), LAMBDA g :
        [c |-> g.c, ty |-> Variable(g.id, debug_name)])

\* InferenceContext::create_type_variable
create_type_variable(self, debug_name) ==
    With(next_substitution_id(self), LAMBDA g :
    With(Variable(g.id, debug_name), LAMBDA type_variable :
        IF g.id \in DOMAIN self.type_var_substitutions
        THEN [c |-> [g.c EXCEPT !.st = "assert"], ty |-> type_variable]
        ELSE [c |-> [g.c EXCEPT !.type_var_substitutions = Insert(@, g.id, type_variable)],
              ty |-> type_variable]))

\* InferenceContext::add_constraint
add_constraint(self, type_a, type_b) ==
    [self EXCEPT !.constraints = Append(@, Equality(type_a, type_b))]

env_insert(self, type_id, ty) == [self EXCEPT !.type_env = Insert(@, type_id, ty)]

\* InferenceContext::finalize
finalize(self, ty) ==
    With(try_strip_all_stub_layers(ty), LAMBDA stripped_type :
        [constraints |-> self.constraints,
         type_var_substitutions |-> self.type_var_substitutions,
         type_env |-> self.type_env,
         id_count |-> self.counter,
         ty |-> stripped_type.v,
         st |-> IF self.st # "ok" THEN self.st
                ELSE IF stripped_type.st \in {"ok", "diverge"} THEN stripped_type.st
                ELSE "panic",
         issued |-> self.issued])

\* InferenceContext::extend.  A child that did not return takes the parent
\* with it; either assertion failing is a panic.
extend(self, other) ==
    IF other.st # "ok" THEN [self EXCEPT !.st = other.st]
    ELSE IF ~(other.id_count >= self.counter) THEN [self EXCEPT !.st = "assert"]
    ELSE IF DOMAIN other.type_var_substitutions \cap DOMAIN self.type_var_substitutions # {}
         THEN [self EXCEPT !.st = "assert", !.counter = other.id_count]
    ELSE [self EXCEPT !.counter = other.id_count,
                      !.type_var_substitutions = other.type_var_substitutions @@ @,
                      !.type_env = other.type_env @@ @,
                      !.constraints = @ \o other.constraints,
                      !.issued = @ \o other.issued]

RECURSIVE infer(_, _, _)

\* InferenceContext::visit
visit(self, inferable, fuel) ==
    IF self.st # "ok" THEN [c |-> self, ty |-> Unit]
    ELSE With(infer(inferable, self, fuel), LAMBDA result :
             [c |-> extend(self, result), ty |-> result.ty])

\* A constrain that records its equality after the child has been merged.
constrain_after_merge(self, inferable, ty, fuel) ==
    IF self.st # "ok" THEN [c |-> self, ty |-> Unit]
    ELSE With(infer(inferable, self, fuel), LAMBDA result :
             [c |-> add_constraint(extend(self, result), ty, result.ty), ty |-> result.ty])

\* InferenceContext::constrain
constrain(self, inferable, ty, fuel) ==
    IF self.st # "ok" THEN [c |-> self, ty |-> Unit]
    ELSE With(infer(inferable, self, fuel), LAMBDA result :
             [c |-> extend(add_constraint(self, ty, result.ty), result), ty |-> result.ty])

\* InferenceContext::transient
transient(self, inferable, fuel) ==
    With(infer(inferable, inherit(self), fuel), LAMBDA result :
        finalize(extend(inherit(self), result), result.ty))

\* Visits nodes[i..] in order; tys collects the types.
RECURSIVE visit_each(_, _, _, _, _)
visit_each(self, nodes, i, tys, fuel) ==
    IF i > Len(nodes) THEN [c |-> self, tys |-> tys]
    ELSE With(visit(self, nodes[i], fuel), LAMBDA v :
             visit_each(v.c, nodes, i + 1, Append(tys, v.ty), fuel))

\* InferenceContext::infer_parameter
infer_parameter(self, parameter) ==
    With(IF parameter.type_hint # None
         THEN [c |-> self, ty |-> parameter.type_hint[1]]
         ELSE create_type_variable(self, "parameter"), LAMBDA t :
        [c |-> env_insert(t.c, parameter.type_id, t.ty), ty |-> t.ty])

\* InferenceContext::create_signature_type; "panic" when the return type
\* hint is absent (expect).
create_signature_type(self, signature, fuel) ==
    IF signature.return_type_hint = None
    THEN [c |-> [self EXCEPT !.st = "panic"], ty |-> Unit]
    ELSE With(visit_each(env_insert(self, signature.return_type_id,
                                    signature.return_type_hint[1]),
                         signature.parameters, 1, <<>>, fuel), LAMBDA ps :
             [c |-> ps.c, ty |-> Signature(ps.tys, signature.return_type_hint[1], Fixed)])

\* InferenceContext::visit_target_via_link, unwrapped by its callers.
visit_target_via_link(self, link_id, fuel) ==
    With(follow_link(link_id), LAMBDA target :
        IF target = None
        THEN [c |-> [self EXCEPT !.st = "panic"], ty |-> Unit]
        ELSE visit(self, Item(target[1].ast), fuel))

\* An arity mode that counts one required parameter too many.
determine_arity_mode_one_more(callable) ==
    IF callable.node = "ForeignFunction" /\ callable.signature.is_variadic
    THEN Variadic(Len(callable.signature.parameters) + 1)
    ELSE Fixed

\* InferenceContext::determine_arity_mode_for_callable
determine_arity_mode_for_callable(callable) ==
    IF callable.node = "ForeignFunction" /\ callable.signature.is_variadic
    THEN Variadic(Len(callable.signature.parameters))
    ELSE Fixed

\* CallSite::strip_callee: the callable the callee expression names.
strip_callee(call_site) ==
    IF call_site.callee_expr.inner.node # "Reference" THEN None
    ELSE With(follow_link(call_site.callee_expr.inner.link_id), LAMBDA target :
             IF target = None THEN None
             ELSE IF target[1].item \in {"Function", "ForeignFunction"}
                  THEN Some(target[1].ast)
                  ELSE None)

\* Positions of the entries of fields with another key than name, in order.
OtherKeys(fields, name) == {i \in 1..Len(fields.names) : fields.names[i] # name}

\* The j-th smallest element of the set of positions keep.
Nth(keep, j) == CHOOSE i \in keep : Cardinality({h \in keep : h < i}) = j - 1

\* BTreeMap::insert on an ObjectFieldMap held as (names, types) in key order.
\* An insertion-ordered map: a new key goes to the end.
map_insert_at_end(fields, name, ty) ==
    With(OtherKeys(fields, name), LAMBDA keep :
        [names |-> [j \in 1..(Cardinality(keep) + 1) |->
                        IF j <= Cardinality(keep) THEN fields.names[Nth(keep, j)] ELSE name],
         tys |-> [j \in 1..(Cardinality(keep) + 1) |->
                      IF j <= Cardinality(keep) THEN fields.tys[Nth(keep, j)] ELSE ty]])

map_insert(fields, name, ty) ==
    With(OtherKeys(fields, name), LAMBDA keep :
    With(Cardinality({i \in keep : fields.names[i] < name}), LAMBDA before :
        [names |-> [j \in 1..(Cardinality(keep) + 1) |->
                        IF j <= before THEN fields.names[Nth(keep, j)]
                        ELSE IF j = before + 1 THEN name
                        ELSE fields.names[Nth(keep, j - 1)]],
         tys |-> [j \in 1..(Cardinality(keep) + 1) |->
                      IF j <= before THEN fields.tys[Nth(keep, j)]
                      ELSE IF j = before + 1 THEN ty
                      ELSE fields.tys[Nth(keep, j - 1)]]]))

(***************************************************************************)
(* inference.rs: the Infer implementations.  Each takes the parent context *)
(* and returns an InferenceResultData.                                     *)
(***************************************************************************)
\* The type of a literal, with the context it was made in.
literal_type(self, context) ==
    IF self.kind = "Bool" THEN [c |-> context, ty |-> Bool]
    ELSE IF self.kind = "String" THEN [c |-> context, ty |-> CString]
    ELSE IF self.kind = "Char" THEN [c |-> context, ty |-> Char]
    ELSE IF self.kind = "Nullptr" THEN
        IF self.type_hint # None THEN [c |-> context, ty |-> self.type_hint[1]]
        ELSE With(create_type_variable(context, "nullptr"), LAMBDA v :
                 [c |-> v.c, ty |-> Pointer(v.ty)])
    ELSE IF self.type_hint # None THEN [c |-> context, ty |-> self.type_hint[1]]
    ELSE IF self.is_real THEN [c |-> context, ty |-> Real(self.bit_width)]
    ELSE [c |-> context, ty |-> Integer(self.bit_width, TRUE)]

infer_Literal(self, parent, fuel) ==
    With(literal_type(self, inherit(parent)), LAMBDA t :
        finalize(env_insert(t.c, self.type_id, t.ty), t.ty))

infer_Parameter(self, parent, fuel) ==
    With(infer_parameter(inherit(parent), self), LAMBDA t : finalize(t.c, t.ty))

\* A function walk that visits the body without constraining it.
infer_Function_body_unconstrained(self, parent, fuel) ==
    With(create_signature_type(inherit(parent), self.signature, fuel), LAMBDA sig :
        IF sig.c.st # "ok" THEN finalize(sig.c, sig.ty)
        ELSE With(visit(env_insert(sig.c, self.type_id, sig.ty), self.body, fuel),
                  LAMBDA body : finalize(body.c, sig.ty)))

infer_Function(self, parent, fuel) ==
    With(create_signature_type(inherit(parent), self.signature, fuel), LAMBDA sig :
        IF sig.c.st # "ok" THEN finalize(sig.c, sig.ty)
        ELSE With(constrain(env_insert(sig.c, self.type_id, sig.ty), self.body,
                            sig.ty.ret[1], fuel), LAMBDA body :
                 finalize(body.c, sig.ty)))

infer_ClosureCapture(self, parent, fuel) ==
    With(visit_target_via_link(inherit(parent), self.target_link_id, fuel), LAMBDA t :
        finalize(env_insert(t.c, self.type_id, t.ty), t.ty))

infer_Closure(self, parent, fuel) ==
    With(create_signature_type(inherit(parent), self.signature, fuel), LAMBDA sig :
        IF sig.c.st # "ok" THEN finalize(sig.c, sig.ty)
        ELSE With(visit_each(env_insert(sig.c, self.type_id, sig.ty), self.captures, 1,
                             <<>>, fuel), LAMBDA captures :
             With(constrain(captures.c, self.body, sig.ty.ret[1], fuel), LAMBDA body :
                 finalize(body.c, sig.ty))))

\* The type hints of the parameters ps[i..], each written under its type id.
RECURSIVE insert_hints(_, _, _)
insert_hints(c, ps, i) ==
    IF i > Len(ps) THEN c
    ELSE insert_hints(env_insert(c, ps[i].type_id, ps[i].type_hint[1]), ps, i + 1)

\* A foreign signature that is variadic whatever the declaration says.
foreign_signature_type_always_variadic(signature) ==
    Signature([i \in 1..Len(signature.parameters) |-> signature.parameters[i].type_hint[1]],
              signature.return_type_hint[1], Variadic(Len(signature.parameters)))

foreign_signature_type(signature) ==
    Signature([i \in 1..Len(signature.parameters) |-> signature.parameters[i].type_hint[1]],
              signature.return_type_hint[1],
              IF signature.is_variadic THEN Variadic(Len(signature.parameters)) ELSE Fixed)

infer_ForeignFunction(self, parent, fuel) ==
    IF (\E i \in 1..Len(self.signature.parameters) :
            self.signature.parameters[i].type_hint = None)
       \/ self.signature.return_type_hint = None
    THEN finalize([inherit(parent) EXCEPT !.st = "panic"], Unit)
    ELSE With(foreign_signature_type(self.signature), LAMBDA ty :
             finalize(env_insert(insert_hints(inherit(parent), self.signature.parameters, 1),
                                 self.type_id, ty), ty))

\* A reference that infers its target in a context of its own, counting
\* ids from the initial count again.
infer_Reference_ids_restarted(self, parent, fuel) ==
    With(visit_target_via_link(new_context(0), self.link_id, fuel), LAMBDA t :
        finalize(env_insert(t.c, self.type_id, t.ty), t.ty))

infer_Reference(self, parent, fuel) ==
    With(visit_target_via_link(inherit(parent), self.link_id, fuel), LAMBDA t :
        finalize(env_insert(t.c, self.type_id, t.ty), t.ty))

\* The arguments of a call site, in order: each value visited, its type
\* written under the argument's type id.
RECURSIVE visit_arguments(_, _, _, _, _)
\* Arguments visited without their types being written under their ids.
visit_arguments_unrecorded(self, arguments, i, tys, fuel) ==
    IF i > Len(arguments) THEN [c |-> self, tys |-> tys]
    ELSE With(visit(self, arguments[i].value, fuel), LAMBDA v :
             visit_arguments(v.c, arguments, i + 1, Append(tys, v.ty), fuel))

visit_arguments(self, arguments, i, tys, fuel) ==
    IF i > Len(arguments) THEN [c |-> self, tys |-> tys]
    ELSE With(visit(self, arguments[i].value, fuel), LAMBDA v :
             visit_arguments(env_insert(v.c, arguments[i].type_id, v.ty), arguments,
                             i + 1, Append(tys, v.ty), fuel))

infer_CallSite(self, parent, fuel) ==
    With(inherit(parent), LAMBDA context :
    With(strip_callee(self), LAMBDA callee :
        IF callee = None \/ callee[1].signature.return_type_hint = None
        THEN finalize([context EXCEPT !.st = "panic"], Unit)
        ELSE With(try_strip_all_stub_layers(callee[1].signature.return_type_hint[1]),
                  LAMBDA stripped :
             IF stripped.st # "ok"
             THEN finalize([context EXCEPT !.st =
                      IF stripped.st = "diverge" THEN "diverge" ELSE "panic"], Unit)
             ELSE With(visit_arguments(env_insert(context, self.type_id, stripped.v),
                                       self.arguments, 1, <<>>, fuel), LAMBDA args :
                  With(Signature(args.tys, stripped.v,
                                 determine_arity_mode_for_callable(callee[1])),
                       LAMBDA callee_type :
                  With(constrain(env_insert(args.c, self.callee_type_id, callee_type),
                                 self.callee_expr, callee_type, fuel), LAMBDA constrained :
                      finalize(constrained.c, stripped.v)))))))

infer_ObjectAccess(self, parent, fuel) ==
    With(create_type_variable(inherit(parent), "object_access.member"), LAMBDA t :
    With(next_substitution_id(env_insert(t.c, self.type_id, t.ty)), LAMBDA g :
    With(ObjectOpen(g.id, <<self.field_name>>, <<t.ty>>), LAMBDA base_type :
    With(constrain(g.c, self.object, base_type, fuel), LAMBDA constrained :
        finalize(env_insert(constrained.c, self.base_expr_type_id, base_type), t.ty)))))

\* The fields of an object literal, in the literal's order: a fresh variable
\* per field, the field constrained to it, collected into an ObjectFieldMap.
RECURSIVE infer_fields(_, _, _, _, _)
infer_fields(context, self, i, fields, fuel) ==
    IF i > Len(self.fields) THEN [c |-> context, fields |-> fields]
    ELSE With(create_type_variable(context, "object.field"), LAMBDA t :
         With(constrain(t.c, self.fields[i], t.ty, fuel), LAMBDA constrained :
             infer_fields(constrained.c, self, i + 1,
                          map_insert(fields, self.names[i], t.ty), fuel)))

infer_Object(self, parent, fuel) ==
    With(infer_fields(inherit(parent), self, 1, [names |-> <<>>, tys |-> <<>>], fuel),
         LAMBDA fs :
    With(ObjectClosed(fs.fields.names, fs.fields.tys), LAMBDA ty :
        finalize(env_insert(fs.c, self.type_id, ty), ty)))

infer_Tuple(self, parent, fuel) ==
    With(visit_each(inherit(parent), self.elements, 1, <<>>, fuel), LAMBDA es :
    With(Tuple(es.tys), LAMBDA ty :
        finalize(env_insert(es.c, self.type_id, ty), ty)))

infer_TupleIndex(self, parent, fuel) ==
    With(create_type_variable(inherit(parent), "tuple.access"), LAMBDA tuple_type :
    With(create_type_variable(tuple_type.c, "tuple.access.element"), LAMBDA element_type :
    With(constrain(env_insert(env_insert(element_type.c, self.indexed_tuple_type_id,
                                         tuple_type.ty),
                              self.type_id, element_type.ty),
                   self.indexed_tuple, tuple_type.ty, fuel), LAMBDA constrained :
        finalize(constrained.c, element_type.ty))))

\* The operand type of an arithmetic operator: a fresh variable constrained
\* to the result type.
numeric_operand_type(c, ty) ==
    With(create_type_variable(c, "binary_op.operand.numeric"), LAMBDA o :
        [c |-> add_constraint(o.c, o.ty, ty), ty |-> o.ty])

infer_BinaryOp(self, parent, fuel) ==
    IF self.operator = "In" THEN finalize([inherit(parent) EXCEPT !.st = "panic"], Unit)
    ELSE
    With(self.operator \in {"Add", "Subtract", "Multiply", "Divide"}, LAMBDA arithmetic :
    With(IF arithmetic
         THEN create_type_variable(inherit(parent), "binary_op.arithmetic")
         ELSE IF self.operator = "Modulo" THEN [c |-> inherit(parent), ty |-> I64]
         ELSE [c |-> inherit(parent), ty |-> Bool], LAMBDA t :
    With(IF arithmetic THEN numeric_operand_type(t.c, t.ty)
         ELSE create_type_variable(t.c, "binary_op.operand"), LAMBDA operand_type :
    With(constrain(env_insert(operand_type.c, self.operand_type_id, operand_type.ty),
                   self.left_operand, operand_type.ty, fuel), LAMBDA left :
    With(constrain(left.c, self.right_operand, operand_type.ty, fuel), LAMBDA right :
        finalize(env_insert(right.c, self.type_id, t.ty), t.ty))))))

\* UnionInstance::infer: the payload is constrained to a fresh variable, and
\* the todo!() that follows is reached for every payload kind, so the lookup
\* of the variant's union after it never runs.
infer_UnionInstance(self, parent, fuel) ==
    With(create_type_variable(inherit(parent), "union_instance.value"), LAMBDA value_type :
    With(IF self.kind = "Value"
         THEN constrain(value_type.c, self.value, value_type.ty, fuel).c
         ELSE IF self.kind = "String" THEN add_constraint(value_type.c, value_type.ty, CString)
         ELSE add_constraint(value_type.c, value_type.ty, U64), LAMBDA context :
        finalize([context EXCEPT !.st = "panic"], Unit)))

\* Infer::infer, dispatched on the node; Expr and Item hand their variant to
\* transient.  With no room left on the stack the call does not return.
infer(self, parent, fuel) ==
    CASE fuel = 0 -> finalize([inherit(parent) EXCEPT !.st = "diverge"], Unit)
      [] fuel > 0 /\ self.node \in {"Expr", "Item"} -> transient(parent, self.inner, fuel - 1)
      [] fuel > 0 /\ self.node = "Literal" -> infer_Literal(self, parent, fuel - 1)
      [] fuel > 0 /\ self.node = "Parameter" -> infer_Parameter(self, parent, fuel - 1)
      [] fuel > 0 /\ self.node = "Function" -> infer_Function(self, parent, fuel - 1)
      [] fuel > 0 /\ self.node = "Closure" -> infer_Closure(self, parent, fuel - 1)
      [] fuel > 0 /\ self.node = "ClosureCapture" ->
             infer_ClosureCapture(self, parent, fuel - 1)
      [] fuel > 0 /\ self.node = "ForeignFunction" ->
             infer_ForeignFunction(self, parent, fuel - 1)
      [] fuel > 0 /\ self.node = "Reference" -> infer_Reference(self, parent, fuel - 1)
      [] fuel > 0 /\ self.node = "CallSite" -> infer_CallSite(self, parent, fuel - 1)
      [] fuel > 0 /\ self.node = "ObjectAccess" -> infer_ObjectAccess(self, parent, fuel - 1)
      [] fuel > 0 /\ self.node = "Object" -> infer_Object(self, parent, fuel - 1)
      [] fuel > 0 /\ self.node = "Tuple" -> infer_Tuple(self, parent, fuel - 1)
      [] fuel > 0 /\ self.node = "TupleIndex" -> infer_TupleIndex(self, parent, fuel - 1)
      [] fuel > 0 /\ self.node = "BinaryOp" -> infer_BinaryOp(self, parent, fuel - 1)
      [] fuel > 0 /\ self.node = "UnionInstance" ->
             infer_UnionInstance(self, parent, fuel - 1)


(***************************************************************************)
(* The unifier (TypeUnificationContext), from its specified algorithm:     *)
(* syntactic unification over a substitution environment, with an occurs   *)
(* check and row unification of objects.  A unification state u is         *)
(*   env      SubstitutionId -> Type                                       *)
(*   counter  source of the fresh ids of merged open objects               *)
(* and an outcome is [st, kind, u]: st "ok" or "fail" (with the error      *)
(* kind), "panic" or "diverge".                                            *)
(***************************************************************************)
UOk(u) == [st |-> "ok", kind |-> "", u |-> u]
UFail(kind, u) == [st |-> "fail", kind |-> kind, u |-> u]
UStop(st, u) == [st |-> st, kind |-> "", u |-> u]

Bind(u, id, ty) == [u EXCEPT !.env = Insert(@, id, ty)]

\* Step 1: strip the stub layers, follow the substitution chain of a bound
\* variable and the binding of a bound open object.
RECURSIVE prime(_, _, _)
prime(ty, env, fuel) ==
    IF fuel = 0 THEN Diverge
    ELSE With(try_strip_all_stub_layers(ty), LAMBDA stripped :
         IF stripped.st # "ok" THEN stripped
         ELSE With(stripped.v, LAMBDA t :
              IF t.k = "Variable" /\ t.id \in DOMAIN env
                 /\ ~is_same_type_variable_as(env[t.id], t.id)
              THEN prime(env[t.id], env, fuel - 1)
              ELSE IF t.k = "Object" /\ t.p = "Open" /\ t.id \in DOMAIN env
                      /\ ~(env[t.id].k = "Object" /\ env[t.id].p = "Open"
                           /\ env[t.id].id = t.id)
              THEN prime(env[t.id], env, fuel - 1)
              ELSE Ok(t)))

\* Step 3: does Variable(id) occur in the indirect subtree of ty?  "yes",
\* "no", or the way the traversal ended before finding it.
occurs_check(id, ty) ==
    With(indirect_subtree(ty), LAMBDA sub :
        IF \E i \in 1..Len(sub.seq) : is_same_type_variable_as(sub.seq[i], id) THEN "yes"
        ELSE IF sub.st = "ok" THEN "no"
        ELSE sub.st)

\* Position of name among names, or 0.
FieldIndex(names, name) ==
    IF \E i \in 1..Len(names) : names[i] = name
    THEN CHOOSE i \in 1..Len(names) : names[i] = name
    ELSE 0

\* The union of the fields of two objects, in key order; a shared field takes
\* the type it has in a.
RECURSIVE merge_fields(_, _, _)
merge_fields(fields, b, i) ==
    IF i > Len(b.names) THEN fields
    ELSE merge_fields(IF FieldIndex(fields.names, b.names[i]) # 0 THEN fields
                      ELSE map_insert(fields, b.names[i], b.ch[i]), b, i + 1)

RECURSIVE unify(_, _, _, _)

\* Unifies as[i] with bs[i] for i in order, stopping at the first failure.
RECURSIVE unify_pairwise(_, _, _, _, _)
unify_pairwise(as, bs, i, u, fuel) ==
    IF i > Len(as) THEN UOk(u)
    ELSE With(unify(as[i], bs[i], u, fuel - 1), LAMBDA r :
             IF r.st # "ok" THEN r ELSE unify_pairwise(as, bs, i + 1, r.u, fuel))

\* Step 4, signatures: the arity modes, the parameters, the return types.
unify_signatures(a, b, u, fuel) ==
    With(a.ar # Fixed \/ b.ar # Fixed, LAMBDA variadic :
    With(IF a.ar >= b.ar THEN a.ar ELSE b.ar, LAMBDA min_fixed :
        IF variadic /\ (Len(a.ch) < min_fixed \/ Len(b.ch) < min_fixed)
        THEN UFail("ArityMismatch", u)
        ELSE IF ~variadic /\ Len(a.ch) # Len(b.ch) THEN UFail("ArityMismatch", u)
        ELSE With(IF variadic THEN min_fixed ELSE Len(a.ch), LAMBDA n :
             With(unify_pairwise(SubSeq(a.ch, 1, n), SubSeq(b.ch, 1, n), 1, u, fuel),
                  LAMBDA ps :
                 IF ps.st # "ok" THEN ps ELSE unify(a.ret[1], b.ret[1], ps.u, fuel - 1)))))

\* The open objects a and b, unified field by field, bound to one open
\* object with the union of their fields.
merge_open_objects(a, b, u) ==
    With(merge_fields([names |-> a.names, tys |-> a.ch], b, 1), LAMBDA all :
    With(ObjectOpen(u.counter, all.names, all.tys), LAMBDA merged :
        UOk(Bind(Bind([u EXCEPT !.counter = @ + 1], a.id, merged), b.id, merged))))

\* Positions of the fields of a that b has as well.
SharedFields(a, b) == {i \in 1..Len(a.names) : FieldIndex(b.names, a.names[i]) # 0}

\* Step 5, objects, by kind.
unify_objects(a, b, u, fuel) ==
    With(SharedFields(a, b), LAMBDA shared :
    With(unify_pairwise([j \in 1..Cardinality(shared) |-> a.ch[Nth(shared, j)]],
                        [j \in 1..Cardinality(shared) |->
                            b.ch[FieldIndex(b.names, a.names[Nth(shared, j)])]],
                        1, u, fuel), LAMBDA fields :
    With(Cardinality(shared) = Len(a.names), LAMBDA a_in_b :
    With(Cardinality(shared) = Len(b.names), LAMBDA b_in_a :
        IF a.p = "Closed" /\ b.p = "Closed" THEN
            IF a_in_b /\ b_in_a THEN fields ELSE UFail("UnificationFailure", u)
        ELSE IF a.p = "Open" /\ b.p = "Closed" THEN
            IF ~a_in_b THEN UFail("UnificationFailure", u)
            ELSE IF fields.st # "ok" THEN fields
            ELSE UOk(Bind(fields.u, a.id, b))
        ELSE IF a.p = "Closed" /\ b.p = "Open" THEN
            IF ~b_in_a THEN UFail("UnificationFailure", u)
            ELSE IF fields.st # "ok" THEN fields
            ELSE UOk(Bind(fields.u, b.id, a))
        ELSE IF a.id = b.id THEN fields
        ELSE IF fields.st # "ok" THEN fields
        ELSE merge_open_objects(a, b, fields.u)))))

\* Step 2, one side a variable: the occurs check, then the binding.
unify_variable(var, other, u) ==
    With(occurs_check(var.id, other), LAMBDA occurs :
        IF occurs = "yes" THEN UFail("CyclicType", u)
        ELSE IF occurs = "no" THEN UOk(Bind(u, var.id, other))
        ELSE IF occurs = "err" THEN UFail("TypeResolutionFailure", u)
        ELSE UStop(occurs, u))

\* Steps 2 to 9 on the primed types a and b.
unify_primed(a, b, u, fuel) ==
    IF a.k = "Variable" /\ b.k = "Variable" /\ a.id = b.id THEN UOk(u)
    ELSE IF a.k = "Variable" THEN unify_variable(a, b, u)
    ELSE IF b.k = "Variable" THEN unify_variable(b, a, u)
    ELSE IF a.k = b.k /\ a.k \in {"Pointer", "Reference"}
         THEN unify(a.ch[1], b.ch[1], u, fuel - 1)
    ELSE IF a.k = "Tuple" /\ b.k = "Tuple" THEN
        IF Len(a.ch) # Len(b.ch) THEN UFail("UnificationFailure", u)
        ELSE unify_pairwise(a.ch, b.ch, 1, u, fuel)
    ELSE IF a.k = "Signature" /\ b.k = "Signature" THEN unify_signatures(a, b, u, fuel)
    ELSE IF a.k = "Object" /\ b.k = "Object" THEN unify_objects(a, b, u, fuel)
    ELSE IF (a.k = "Opaque" /\ b.k \in {"Pointer", "Opaque"})
            \/ (b.k = "Opaque" /\ a.k = "Pointer") THEN UOk(u)
    ELSE IF a.k = "Union" /\ b.k = "Union" /\ a.id = b.id THEN UOk(u)
    ELSE IF a.k = "Primitive" /\ b.k = "Primitive" /\ a.p = b.p THEN UOk(u)
    ELSE IF a.k = "Unit" /\ b.k = "Unit" THEN UOk(u)
    ELSE UFail("UnificationFailure", u)

unify(type_a, type_b, u, fuel) ==
    IF fuel = 0 THEN UStop("diverge", u)
    ELSE With(prime(type_a, u.env, fuel), LAMBDA pa :
         With(prime(type_b, u.env, fuel), LAMBDA pb :
             IF pa.st = "err" \/ pb.st = "err" THEN UFail("TypeResolutionFailure", u)
             ELSE IF pa.st # "ok" THEN UStop(pa.st, u)
             ELSE IF pb.st # "ok" THEN UStop(pb.st, u)
             ELSE unify_primed(pa.v, pb.v, u, fuel)))

\* A solver that gives up at the first error: once an error is recorded the
\* remaining constraints are skipped.
solve_constraint_until_error(state, constraint) ==
    IF state.errors # <<>> THEN state
    ELSE With(unify(constraint.a, constraint.b,
                    [env |-> state.env, counter |-> state.counter], MaxFuel), LAMBDA r :
             [env |-> r.u.env, counter |-> r.u.counter,
              errors |-> IF r.st = "ok" THEN state.errors
                         ELSE Append(state.errors, IF r.st = "fail" THEN r.kind ELSE r.st)])

\* TypeUnificationContext::solve_constraints, one constraint: an error is
\* recorded and the bindings made so far are kept.
solve_constraint(state, constraint) ==
    With(unify(constraint.a, constraint.b,
               [env |-> state.env, counter |-> state.counter], MaxFuel), LAMBDA r :
        [env |-> r.u.env, counter |-> r.u.counter,
         errors |-> IF r.st = "ok" THEN state.errors
                    ELSE Append(state.errors, IF r.st = "fail" THEN r.kind ELSE r.st)])


(***************************************************************************)
(* instantiation.rs                                                        *)
(***************************************************************************)
\* A comparison by equality of the two terms.
compare_structurally(type_a, type_b) ==
    IF type_a = type_b THEN "true" ELSE "false"

\* InstantiationHelper::compare_by_unification: a new unification context over
\* an empty substitution environment solves the one constraint
\* Equality(type_a, type_b); the answer is is_ok() of the result, "true" or
\* "false", or the way the solver failed to return.
compare_by_unification(type_a, type_b) ==
    With(solve_constraint([env |-> EmptyMap, counter |-> 0, errors |-> <<>>],
                          Equality(type_a, type_b)).errors, LAMBDA errors :
        IF errors = <<>> THEN "true"
        ELSE IF errors[1] \in {"diverge", "panic"} THEN errors[1]
        ELSE "false")

(***************************************************************************)
(* The pipeline: walk the roots of a program, solve the constraints in     *)
(* emission order, resolve every entry of the type environment.            *)
(***************************************************************************)
Programs ==
    << <<Item(AliasFn)>>, <<Expr(TupleIdx)>>, <<Item(First), Expr(CallFirst)>>,
       <<Item(Printf), Expr(CallPrintf)>>, <<Item(Printf), Expr(CallPrintfNoArgs)>>,
       <<Item(Fact)>>, <<Expr(AddNumbers)>>, <<Item(Generic)>>, <<Expr(AccessX)>>,
       <<Expr(LiteralNullptr(90, None))>>, <<Expr(LiteralBool(91)), Expr(LiteralChar(92))>>,
       <<Item(Printf), Expr(CallPrintfBadFormat)>>,
       <<Item(IdFn), Expr(CallId)>>, <<Item(IdentFn), Expr(CallIdent)>>,
       <<Expr(UnboundReference), Expr(LiteralBool(121))>>,
       <<Expr(CallLiteral), Expr(LiteralBool(125))>>,
       <<Expr(DanglingNullptr), Expr(LiteralBool(127))>>,
       <<Expr(CallPrintfBadFormat), Expr(CallFirst), Expr(CallPrintfNoArgs)>>,
       <<Expr(ClosureLit)>>,
       <<Expr(ReferenceTo(140, LIdent)), Expr(ReferenceTo(141, LIdent))>>,
       <<Expr(CallAliasFn)>>, <<Item(Puts), Expr(CallPuts)>>,
       <<Expr(ModNumbers)>>, <<Expr(LessNumbers)>>, <<Expr(InNumbers)>>,
       <<Expr(InstanceValue)>>, <<Expr(InstanceString)>>, <<Expr(InstanceSingleton)>> >>

\* last before any transient call.  issued: the ids handed out inside the
\* children of the transient calls made so far; decreased: whether a call
\* has left the driver's counter lower than it found it.
NoTransient == [valid |-> FALSE, data |-> finalize(new_context(0), Unit),
                parent |-> new_context(0), issued |-> <<>>, decreased |-> FALSE]
NoUni == [env |-> EmptyMap, counter |-> 0, errors |-> <<>>]
NoOut == [op |-> "none", a |-> Ok(Unit), b |-> Ok(Unit)]

\* The last step of the pipeline for one entry: the substitution environment
\* applied, then resolve.
resolve_entry(ty, env) ==
    LET substituted == substitute(ty, env, MaxFuel) IN
    IF substituted.st # "ok" THEN substituted ELSE resolve(substituted.v, MaxFuel)

Init ==
    /\ prog \in 1..Len(Programs)
    /\ initial_id \in 0..MaxInitialId
    /\ phase = "walk"
    /\ ctx = new_context(initial_id)
    /\ last = NoTransient
    /\ calls = 0
    /\ cidx = 0
    /\ uni = NoUni
    /\ final = EmptyMap
    /\ tyA = Unit /\ tyB = Unit /\ out = NoOut

\* The driver visits the next root of the program.
WalkRoot ==
    /\ phase = "walk" /\ ctx.st = "ok" /\ calls < Len(Programs[prog])
    /\ ctx' = visit(ctx, Programs[prog][calls + 1], MaxDepth).c
    /\ calls' = calls + 1
    /\ UNCHANGED <<prog, initial_id, phase, last, cidx, uni, final, tyA, tyB, out>>

\* InferenceContext::into_overall_result, handed to TypeUnificationContext::new.
IntoOverallResult ==
    /\ phase = "walk" /\ ctx.st = "ok" /\ calls = Len(Programs[prog])
    /\ phase' = "unify"
    /\ uni' = [env |-> ctx.type_var_substitutions, counter |-> ctx.counter, errors |-> <<>>]
    /\ cidx' = 1
    /\ UNCHANGED <<prog, initial_id, ctx, last, calls, final, tyA, tyB, out>>

\* solve_constraints: the next constraint, in emission order.
SolveConstraint ==
    /\ phase = "unify" /\ cidx <= Len(ctx.constraints)
    /\ uni' = solve_constraint(uni, ctx.constraints[cidx])
    /\ cidx' = cidx + 1
    /\ UNCHANGED <<prog, initial_id, phase, ctx, last, calls, final, tyA, tyB, out>>

\* solve_constraints returns: Ok(substitution_env) or the error list.
Solved ==
    /\ phase = "unify" /\ cidx > Len(ctx.constraints)
    /\ phase' = IF uni.errors = <<>> THEN "resolve" ELSE "failed"
    /\ UNCHANGED <<prog, initial_id, ctx, last, calls, cidx, uni, final, tyA, tyB, out>>

Unresolved == DOMAIN ctx.type_env \ DOMAIN final

\* The next entry of the type environment is resolved.
ResolveNext ==
    /\ phase = "resolve" /\ Unresolved # {}
    /\ LET type_id == CHOOSE t \in Unresolved : \A o \in Unresolved : t <= o
       IN  final' = Insert(final, type_id, resolve_entry(ctx.type_env[type_id], uni.env))
    /\ UNCHANGED <<prog, initial_id, phase, ctx, last, calls, cidx, uni, tyA, tyB, out>>

Resolved ==
    /\ phase = "resolve" /\ Unresolved = {}
    /\ phase' = "done"
    /\ UNCHANGED <<prog, initial_id, ctx, last, calls, cidx, uni, final, tyA, tyB, out>>

Next == WalkRoot \/ IntoOverallResult \/ SolveConstraint \/ Solved \/ ResolveNext \/ Resolved

Spec == Init /\ [][Next]_vars

(***************************************************************************)
(* The walker's interface, called in any order on one driver context.      *)
(***************************************************************************)
ConstrainTypes == {Bool}

Noted(c) == [last EXCEPT !.decreased = @ \/ c.counter < ctx.counter]

InitWalk ==
    /\ prog = 0
    /\ initial_id \in 0..MaxInitialId
    /\ phase = "api"
    /\ ctx = new_context(initial_id)
    /\ last = NoTransient
    /\ calls = 0
    /\ cidx = 0
    /\ uni = NoUni
    /\ final = EmptyMap
    /\ tyA = Unit /\ tyB = Unit /\ out = NoOut

CreateTypeVariable ==
    /\ phase = "api" /\ ctx.st = "ok" /\ calls < MaxCalls
    /\ LET c == create_type_variable(ctx, "driver").c
       IN  ctx' = c /\ last' = Noted(c)
    /\ calls' = calls + 1
    /\ UNCHANGED <<prog, initial_id, phase, cidx, uni, final, tyA, tyB, out>>

Visit ==
    /\ phase = "api" /\ ctx.st = "ok" /\ calls < MaxCalls
    /\ \E i \in 1..Len(Roots) :
          LET c == visit(ctx, Roots[i], MaxDepth).c
          IN  ctx' = c /\ last' = Noted(c)
    /\ calls' = calls + 1
    /\ UNCHANGED <<prog, initial_id, phase, cidx, uni, final, tyA, tyB, out>>

Constrain ==
    /\ phase = "api" /\ ctx.st = "ok" /\ calls < MaxCalls
    /\ \E i \in 1..Len(Roots), ty \in ConstrainTypes :
          LET c == constrain(ctx, Roots[i], ty, MaxDepth).c
          IN  ctx' = c /\ last' = Noted(c)
    /\ calls' = calls + 1
    /\ UNCHANGED <<prog, initial_id, phase, cidx, uni, final, tyA, tyB, out>>

\* ctx.transient(..) borrows the context immutably: the result is returned
\* and the context is as before.
Transient ==
    /\ phase = "api" /\ ctx.st = "ok" /\ calls < MaxCalls
    /\ \E i \in 1..Len(Roots) :
          LET data == transient(ctx, Roots[i], MaxDepth)
          IN  last' = [valid |-> TRUE, data |-> data, parent |-> ctx,
                       issued |-> last.issued \o data.issued,
                       decreased |-> last.decreased]
    /\ calls' = calls + 1
    /\ UNCHANGED <<prog, initial_id, phase, ctx, cidx, uni, final, tyA, tyB, out>>

NextWalk == CreateTypeVariable \/ Visit \/ Constrain \/ Transient

SpecWalk == InitWalk /\ [][NextWalk]_vars

(***************************************************************************)
(* The operations on single types: unification of two types, substitution  *)
(* and resolution, on every pair of a set of small types.                  *)
(***************************************************************************)
\* The type id the type environment has an entry for, and one it lacks.
TypeIdA == 1
TypeIdAbsent == 2

VarA == Variable(0, "a")
VarB == Variable(1, "b")
\* A variable the environment has no entry for: one created in a context that
\* was dropped (InferenceContext::transient), whose type outlived it.
VarFree == Variable(7, "free")

Universe ==
    { Bool, Char, Unit, Opaque, VarA, VarB, VarFree, Union(0),
      Stub(LAlias), Stub(LAlias2), Stub(LPtrAlias), Stub(LDangling), Stub(LCyclic),
      Stub(LUnion), Stub(LList), Stub(LAliasDangling),
      Pointer(Bool), Pointer(Char), Pointer(VarA), Pointer(Stub(LAlias)), Pointer(Pointer(VarA)),
      Reference(VarB), Tuple(<<VarA, Bool>>), Tuple(<<Bool, Char>>),
      ObjectOpen(2, <<1>>, <<Bool>>), ObjectOpen(2, <<1>>, <<VarA>>),
      ObjectOpen(3, <<3>>, <<Bool>>), ObjectOpen(3, <<2>>, <<VarB>>),
      ObjectClosed(<<1>>, <<Bool>>), ObjectClosed(<<1, 2>>, <<Bool, Char>>),
      Signature(<<CString>>, I32, Variadic(1)), Signature(<<CString, I32>>, I32, Fixed),
      Signature(<<>>, I32, Fixed), Signature(<<VarA>>, Stub(LAlias), Fixed),
      Signature(<<>>, VarA, Fixed) }

\* The substitution environment a walk that created VarA and VarB and issued
\* the open ids 2 and 3 hands to the unifier.
AfterWalk == [env |-> Insert(Insert(EmptyMap, 0, VarA), 1, VarB), counter |-> 4,
              errors |-> <<>>]

Outcome(st, e) == [st |-> st, v |-> Unit, e |-> e]

InitTypes ==
    /\ prog = 0
    /\ initial_id = 0
    /\ phase = "input"
    /\ tyA \in Universe /\ tyB \in Universe
    /\ ctx = env_insert(new_context(0), TypeIdA, tyA)
    /\ last = NoTransient
    /\ calls = 0
    /\ cidx = 0
    /\ uni = AfterWalk
    /\ final = EmptyMap
    /\ out = NoOut

\* unify(tyA, tyB) on the environment the walk left.
Unify ==
    /\ phase = "input"
    /\ LET r == unify(tyA, tyB, uni, MaxFuel)
       IN  /\ uni' = r.u
           /\ out' = [op |-> "unify", a |-> Outcome(r.st, r.kind), b |-> Outcome(r.st, r.kind)]
    /\ phase' = "unified"
    /\ UNCHANGED <<prog, initial_id, ctx, last, calls, cidx, final, tyA, tyB>>

\* substitute on both types, under the environment as it is.
Substitute ==
    /\ phase \in {"input", "unified"}
    /\ out' = [op |-> "substitute", a |-> substitute(tyA, uni.env, MaxFuel),
               b |-> substitute(tyB, uni.env, MaxFuel)]
    /\ phase' = "substituted"
    /\ UNCHANGED <<prog, initial_id, ctx, last, calls, cidx, uni, final, tyA, tyB>>

\* resolve on both types.
Resolve ==
    /\ phase = "input"
    /\ out' = [op |-> "resolve", a |-> resolve(tyA, MaxFuel), b |-> resolve(tyB, MaxFuel)]
    /\ phase' = "resolved"
    /\ UNCHANGED <<prog, initial_id, ctx, last, calls, cidx, uni, final, tyA, tyB>>

\* resolve on what resolve returned; final keeps the first results.
ResolveAgain ==
    /\ phase = "resolved" /\ out.a.st = "ok" /\ out.b.st = "ok"
    /\ out' = [op |-> "resolve_again", a |-> resolve(out.a.v, MaxFuel),
               b |-> resolve(out.b.v, MaxFuel)]
    /\ final' = Insert(Insert(EmptyMap, 1, out.a), 2, out.b)
    /\ phase' = "resolved_again"
    /\ UNCHANGED <<prog, initial_id, ctx, last, calls, cidx, uni, tyA, tyB>>

\* After a successful unification both types go through the last step of
\* the pipeline under the environment the unification left.
ResolveUnified ==
    /\ phase = "unified" /\ out.a.st = "ok"
    /\ out' = [op |-> "resolve_unified", a |-> resolve_entry(tyA, uni.env),
               b |-> resolve_entry(tyB, uni.env)]
    /\ phase' = "resolved_unified"
    /\ UNCHANGED <<prog, initial_id, ctx, last, calls, cidx, uni, final, tyA, tyB>>

\* try_strip_all_stub_layers on both types.
StripStubs ==
    /\ phase = "input"
    /\ out' = [op |-> "strip", a |-> try_strip_all_stub_layers(tyA),
               b |-> try_strip_all_stub_layers(tyB)]
    /\ phase' = "stripped"
    /\ UNCHANGED <<prog, initial_id, ctx, last, calls, cidx, uni, final, tyA, tyB>>

\* The immediate subtree iterator of both types, run to its end.
ImmediateSubtree ==
    /\ phase = "input"
    /\ out' = [op |-> "immediate_subtree", a |-> get_immediate_subtree_iter(tyA),
               b |-> get_immediate_subtree_iter(tyB)]
    /\ phase' = "iterated"
    /\ UNCHANGED <<prog, initial_id, ctx, last, calls, cidx, uni, final, tyA, tyB>>

\* is_immediate_subtree_concrete on both types.
ImmediateSubtreeConcrete ==
    /\ phase = "input"
    /\ out' = [op |-> "is_immediate_subtree_concrete",
               a |-> is_immediate_subtree_concrete(tyA),
               b |-> is_immediate_subtree_concrete(tyB)]
    /\ phase' = "tested"
    /\ UNCHANGED <<prog, initial_id, ctx, last, calls, cidx, uni, final, tyA, tyB>>

\* resolve_by_id on the type id of tyA and on a type id without an entry.
ResolveById ==
    /\ phase = "input"
    /\ out' = [op |-> "resolve_by_id", a |-> resolve_by_id(ctx.type_env, TypeIdA),
               b |-> resolve_by_id(ctx.type_env, TypeIdAbsent)]
    /\ phase' = "resolved_by_id"
    /\ UNCHANGED <<prog, initial_id, ctx, last, calls, cidx, uni, final, tyA, tyB>>

\* compare_by_unification on the two types, in both orders.
CompareByUnification ==
    /\ phase = "input"
    /\ out' = [op |-> "compare_by_unification", a |-> compare_by_unification(tyA, tyB),
               b |-> compare_by_unification(tyB, tyA)]
    /\ phase' = "compared"
    /\ UNCHANGED <<prog, initial_id, ctx, last, calls, cidx, uni, final, tyA, tyB>>

NextTypes ==
    \/ Unify \/ Substitute \/ Resolve \/ ResolveAgain \/ ResolveUnified \/ ResolveById
    \/ StripStubs \/ ImmediateSubtree \/ ImmediateSubtreeConcrete
    \/ CompareByUnification

SpecTypes == InitTypes /\ [][NextTypes]_vars

(***************************************************************************)
(* Properties.                                                             *)
(***************************************************************************)
\* Every type found in t at any depth, signature return types included.
RECURSIVE Subterms(_)
Subterms(t) ==
    {t} \cup UNION {Subterms(t.ch[i]) : i \in 1..Len(t.ch)}
        \cup UNION {Subterms(t.ret[i]) : i \in 1..Len(t.ret)}

NoMeta(t) == \A s \in Subterms(t) : ~is_a_meta(s)

NoDup(s) == \A i, j \in 1..Len(s) : i # j => s[i] # s[j]

\* The types a context holds: the values of its type environment and the
\* sides of its constraints.
TypesOf(c) ==
    {c.type_env[k] : k \in DOMAIN c.type_env}
        \cup {c.constraints[i].a : i \in 1..Len(c.constraints)}
        \cup {c.constraints[i].b : i \in 1..Len(c.constraints)}

\* The ids of the open objects found in the types a context holds.
OpenIds(c) ==
    {s.id : s \in {x \in UNION {Subterms(t) : t \in TypesOf(c)} :
                       x.k = "Object" /\ x.p = "Open"}}

\* The programs of Programs that are well typed: every expression has one
\* type the annotations and literals determine.
WellTyped == {1, 2, 3, 4, 7, 9, 11}

\* C1: after the full pipeline (walk, unification, resolution of every
\* entry) on a well-typed program, every type stored in the type environment
\* satisfies is_immediate_subtree_concrete and contains no Variable and no
\* Stub at any depth, signature return types included.
C1_ConcreteAfterPipeline ==
    (phase = "done" /\ prog \in WellTyped) =>
        \A type_id \in DOMAIN final :
            /\ final[type_id].st = "ok"
            /\ is_immediate_subtree_concrete(final[type_id].v) = "true"
            /\ NoMeta(final[type_id].v)

\* C2: immediately after a walk, every substitution id generated by the
\* walker (type variable ids and open object ids alike) is a key of the
\* substitution environment, and every key maps to the Variable of that id.
C2_EveryIssuedIdRegistered ==
    (phase = "api" /\ ctx.st = "ok") =>
        /\ \A i \in 1..Len(ctx.issued) : ctx.issued[i] \in DOMAIN ctx.type_var_substitutions
        /\ \A k \in DOMAIN ctx.type_var_substitutions :
               is_same_type_variable_as(ctx.type_var_substitutions[k], k)

\* C2, as the walker has it: immediately after a walk, every key of the
\* substitution environment maps to the Variable of that id, and every id the
\* walker generated is either such a key or the id of an open object of the
\* type environment or of a constraint, which is not a key.
C2_IssuedIdRegisteredOrOpen ==
    (phase = "api" /\ ctx.st = "ok") =>
        /\ \A k \in DOMAIN ctx.type_var_substitutions :
               is_same_type_variable_as(ctx.type_var_substitutions[k], k)
        /\ \A i \in 1..Len(ctx.issued) :
               \/ ctx.issued[i] \in DOMAIN ctx.type_var_substitutions
               \/ ctx.issued[i] \in OpenIds(ctx)
        /\ OpenIds(ctx) \cap DOMAIN ctx.type_var_substitutions = {}

\* A walk that generated a type variable and an open object id.
C2_Witness ==
    /\ phase = "api" /\ ctx.st = "ok" /\ calls > 0
    /\ OpenIds(ctx) # {}
    /\ DOMAIN ctx.type_var_substitutions # {}

\* C3: across any sequence of create_type_variable, visit, constrain and
\* transient calls, no substitution id is issued twice, the id counter never
\* decreases, and neither merge assertion fails.
C3_IdsUniqueAcrossCalls ==
    phase = "api" =>
        /\ NoDup(ctx.issued \o last.issued)
        /\ ~last.decreased
        /\ ctx.st # "assert" /\ last.data.st # "assert"

\* A walk in which a call on a context whose transient results were dropped
\* issued ids.
C3_Witness == phase = "api" /\ last.valid /\ Len(last.issued) > 0 /\ Len(ctx.issued) > 0

\* The types reached from t through inner types, t included.  No definition
\* of the symbol table holds a variable, so stubs are leaves here.
RECURSIVE InnerTerms(_)
InnerTerms(t) == {t} \cup UNION {InnerTerms(t.ch[i]) : i \in 1..Len(t.ch)}

\* Variable v is found in the indirect subtree of t, t itself not being
\* that variable.
OccursIn(v, t) ==
    /\ ~is_same_type_variable_as(t, v.id)
    /\ \E s \in InnerTerms(t) : is_same_type_variable_as(s, v.id)

\* C4: unifying an unbound variable V with a term that contains V in its
\* indirect subtree fails with CyclicType and does not bind V.
C4_OccursCheck ==
    (phase = "unified" /\ tyA.k = "Variable" /\ OccursIn(tyA, tyB)) =>
        /\ out.a.st = "fail" /\ out.a.e = "CyclicType"
        /\ uni.env[tyA.id] = tyA

\* V unified with a pointer to a pointer to V.
C4_Witness ==
    /\ phase = "unified" /\ tyA = VarA /\ tyB = Pointer(Pointer(VarA))
    /\ out.a.e = "CyclicType"

\* C5: if unifying a with b succeeds, resolving a and resolving b under the
\* resulting substitution environment give structurally equal types.
C5_UnifiedResolveEqual ==
    phase = "resolved_unified" =>
        /\ out.a.st = "ok" /\ out.b.st = "ok"
        /\ out.a.v = out.b.v

\* C6: for any type t on which resolve succeeds, resolve(resolve(t)) equals
\* resolve(t).
C6_ResolveIdempotent ==
    phase = "resolved_again" =>
        /\ out.a = final[1]
        /\ out.b = final[2]

\* resolve applied twice to a type it changes the first time.
C6_Witness ==
    /\ phase = "resolved_again" /\ final[1].v # tyA
    /\ tyB = Pointer(Stub(LAlias)) /\ out.b = Ok(Pointer(Bool))

\* Every stub of t has a chain of definitions that ends in a type, and t
\* holds no union.
Resolvable(t) ==
    \A s \in Subterms(t) :
        /\ s.k # "Union"
        /\ s.k = "Stub" => s.p \in {LAlias, LAlias2, LPtrAlias}

\* C7: resolve(t) returns, for every input type including one that is or
\* contains a Variable, a type whose immediate subtree is fully concrete.
C7_ResolveReturnsConcrete ==
    (phase = "resolved" /\ Resolvable(tyA)) =>
        /\ out.a.st = "ok"
        /\ is_immediate_subtree_concrete(out.a.v) = "true"

\* Every field of the open object a is a field of the closed object b, with
\* the same type.
OpenWithin(a, b) ==
    /\ a.k = "Object" /\ a.p = "Open" /\ b.k = "Object" /\ b.p = "Closed"
    /\ \A i \in 1..Len(a.names) :
           /\ FieldIndex(b.names, a.names[i]) # 0
           /\ b.ch[FieldIndex(b.names, a.names[i])] = a.ch[i]

\* The open object a has a field the closed object b lacks.
OpenBeyond(a, b) ==
    /\ a.k = "Object" /\ a.p = "Open" /\ b.k = "Object" /\ b.p = "Closed"
    /\ \E i \in 1..Len(a.names) : FieldIndex(b.names, a.names[i]) = 0

\* C8: unifying Open(id){f:Tf} with Closed{f:Tf, g:Tg} succeeds and binds
\* the open id to the closed record, substituting the open object afterwards
\* yields the closed record; with a field the closed side lacks,
\* unification fails.
C8_OpenClosedRow ==
    /\ (phase = "unified" /\ OpenWithin(tyA, tyB)) =>
           out.a.st = "ok" /\ tyA.id \in DOMAIN uni.env /\ uni.env[tyA.id] = tyB
    /\ (phase = "substituted" /\ OpenWithin(tyA, tyB) /\ tyA.id \in DOMAIN uni.env) =>
           out.a = Ok(tyB)
    /\ (phase = "unified" /\ OpenBeyond(tyA, tyB)) => out.a.st = "fail"

\* The open object {x: bool} substituted after its unification with the
\* closed object {x: bool, y: char}.
C8_Witness ==
    /\ phase = "substituted" /\ tyA = ObjectOpen(2, <<1>>, <<Bool>>)
    /\ tyB = ObjectClosed(<<1, 2>>, <<Bool, Char>>)
    /\ tyA.id \in DOMAIN uni.env /\ out.a = Ok(tyB)

\* The programs that call the variadic foreign function printf.
PrintfCalls == {4, 5, 12}

\* The arguments of the call of such a program, and the required parameters.
CallArguments == Programs[prog][2].inner.arguments
RequiredParameters == Printf.signature.parameters

C10_RecursiveWalkTerminates ==
    (prog = 6 /\ calls > 0) => ctx.st = "ok"

\* The programs that declare an identity function and call it with true,
\* with the type ids of the function, its parameter and its body.
IdentityPrograms == {13, 14}
IdentityFunction == Programs[prog][1].inner

\* C11: for a function with an unhinted parameter x whose body is a
\* reference to x, the type of the body reference is the type variable of
\* the parameter inside the function's Signature, and after the call with
\* true the parameter type resolves to Bool.
C11_IdentitySharesVariable ==
    (prog \in IdentityPrograms /\ phase \in {"walk", "done"} /\ calls > 0) =>
        /\ ctx.st = "ok"
        /\ ctx.type_env[IdentityFunction.type_id].ch[1].k = "Variable"
        /\ ctx.type_env[IdentityFunction.body.inner.type_id]
               = ctx.type_env[IdentityFunction.type_id].ch[1]
        /\ phase = "done" =>
               final[IdentityFunction.signature.parameters[1].type_id] = Ok(Bool)

\* The programs whose first root fails locally: a reference with a missing
\* link, a call of a non-callable, a hint whose stub stripping fails.
LocalFailurePrograms == {15, 16, 17}

\* C12: the walker never aborts on a local failure: after walking a node
\* with a missing link, a callee that is not callable or a stub that cannot
\* be stripped, the context is still usable, the node has a fresh type
\* variable and the walk continues with the next node.
C12_WalkerNeverAborts ==
    (prog \in LocalFailurePrograms /\ phase = "walk" /\ calls > 0) =>
        /\ ctx.st = "ok"
        /\ ctx.type_env[Programs[prog][1].inner.type_id].k = "Variable"

\* A local failure has been walked.
C12_Witness ==
    prog \in LocalFailurePrograms /\ phase = "walk" /\ calls = 1 /\ ctx.st = "panic"

\* The error kinds of the constraints 1..n that do not unify under the
\* substitution environment reached so far, in constraint order.
RECURSIVE ConstraintErrors(_)
ConstraintErrors(n) ==
    IF n = 0 THEN <<>>
    ELSE With(unify(ctx.constraints[n].a, ctx.constraints[n].b,
                    [env |-> uni.env, counter |-> uni.counter], MaxFuel), LAMBDA r :
             IF r.st = "ok" THEN ConstraintErrors(n - 1)
             ELSE Append(ConstraintErrors(n - 1), IF r.st = "fail" THEN r.kind ELSE r.st))

\* C13: the unifier takes the constraints in emission order and accumulates
\* errors per constraint: the error list holds one error for each failing
\* constraint processed so far, in constraint order, and a failing
\* constraint does not stop the later ones from being solved.
C13_ErrorsPerConstraintInOrder ==
    phase \in {"unify", "failed", "resolve", "done"} =>
        /\ uni.errors = ConstraintErrors(cidx - 1)
        /\ phase # "unify" => cidx = Len(ctx.constraints) + 1

\* A batch with a failing constraint, solved constraints after it, and a
\* second failing constraint at the end.
C13_Witness ==
    /\ phase = "failed"
    /\ uni.errors = <<"UnificationFailure", "ArityMismatch">>
    /\ Len(ctx.constraints) > 2
    /\ \E id \in DOMAIN uni.env : uni.env[id].k # "Variable"

\* A second walk of the first n roots of the program, from a new context
\* with the same initial id count.
RECURSIVE WalkAgain(_)
WalkAgain(n) ==
    IF n = 0 THEN new_context(initial_id)
    ELSE visit(WalkAgain(n - 1), Programs[prog][n], MaxDepth).c

\* The object types found in the types a context holds.
ObjectsOf(c) == {s \in UNION {Subterms(t) : t \in TypesOf(c)} : s.k = "Object"}

KeySorted(names) == \A i, j \in 1..Len(names) : i < j => names[i] < names[j]

RECURSIVE ChainLinks(_, _)
ChainLinks(link, n) ==
    IF n = 0 \/ link \notin DOMAIN SymbolTable THEN {link}
    ELSE IF SymbolTable[link].item # "TypeDef" \/ SymbolTable[link].body.k # "Stub"
         THEN {link}
         ELSE {link} \cup ChainLinks(SymbolTable[link].body.p, n - 1)

Chain(t) == ChainLinks(t.p, Cardinality(DOMAIN SymbolTable))

\* r is what the strip of t has to return.
StripsAsSpecified(t, r) ==
    IF t.k # "Stub" THEN r = Ok(t)
    ELSE /\ r.st = "ok" => r.v.k # "Stub"
         /\ (\E l \in Chain(t) : l \notin DOMAIN SymbolTable)
                => r = Err("SymbolTableMissingEntry")
         /\ \A l \in Chain(t) \cap DOMAIN SymbolTable :
                (SymbolTable[l].item = "TypeDef" /\ SymbolTable[l].body.k # "Stub")
                    => r = Ok(SymbolTable[l].body)

CyclicStub(t) ==
    /\ t.k = "Stub"
    /\ \A l \in Chain(t) :
           /\ l \in DOMAIN SymbolTable
           /\ SymbolTable[l].item = "TypeDef"
           /\ SymbolTable[l].body.k = "Stub"

\* C16: stub stripping terminates on every symbol table: on a cycle of
\* stubs the strip loop stops and reports CyclicType.
C16_StripTerminates ==
    out.op = "strip" =>
        /\ out.a.st # "diverge" /\ out.b.st # "diverge"
        /\ CyclicStub(tyA) => out.a = Err("CyclicType")
        /\ CyclicStub(tyB) => out.b = Err("CyclicType")

\* The strip of an alias that names itself.
C16_Witness ==
    out.op = "strip" /\ CyclicStub(tyA) /\ out.a.st = "diverge"

\* The direct child types of t in structural order: the pointee, the tuple
\* elements, the object field types in key order, the parameter types of a
\* signature (its return type left out).
DirectChildren(t) ==
    IF t.k \in {"Pointer", "Reference", "Tuple", "Object", "Signature"} THEN t.ch ELSE <<>>

\* C17: the immediate subtree of a type is exactly its direct child types
\* in structural order, with nothing deeper and without the return type of
\* a signature.
C17_ImmediateSubtreeIsDirectChildren ==
    out.op = "immediate_subtree" =>
        /\ out.a = Ok(DirectChildren(tyA))
        /\ out.b = Ok(DirectChildren(tyB))

\* The iterator has gone below the direct child of a pointer to a pointer.
C17_Witness ==
    /\ out.op = "immediate_subtree"
    /\ tyA = Pointer(Pointer(VarA))
    /\ out.a = Ok(<<Pointer(VarA), VarA>>)

\* C18: is_immediate_subtree_concrete answers for every type, Union
\* included, and is true exactly when the type is not a Stub or Variable and
\* none of its direct children is; deeper meta types do not count.
C18_ConcreteLooksAtDirectChildrenOnly ==
    out.op = "is_immediate_subtree_concrete" =>
        /\ out.a \in {"true", "false"}
        /\ out.a = "true" <=>
               /\ ~is_a_meta(tyA)
               /\ \A i \in 1..Len(DirectChildren(tyA)) : ~is_a_meta(DirectChildren(tyA)[i])

\* A type whose direct child is concrete and whose grandchild is a variable
\* is reported not concrete, and the test of a Union does not return.
C18_Witness ==
    /\ out.op = "is_immediate_subtree_concrete"
    /\ tyA = Pointer(Pointer(VarA)) /\ out.a = "false"
    /\ tyB = Union(0) /\ out.b = "panic"

\* C19: resolve_by_id fails with MissingEntryForTypeId when the type
\* environment has no entry for the id; otherwise it returns exactly what
\* resolve returns on the entry, a resolver error wrapped as
\* TypeResolutionError; the type environment is as before.
C19_ResolveById ==
    out.op = "resolve_by_id" =>
        /\ out.b = Err("MissingEntryForTypeId")
        /\ resolve(tyA, MaxFuel).st = "err"
               => out.a = Err(TypeResolutionError(resolve(tyA, MaxFuel).e))
        /\ resolve(tyA, MaxFuel).st # "err" => out.a = resolve(tyA, MaxFuel)
        /\ ctx.type_env = Insert(EmptyMap, TypeIdA, tyA)

\* The entry of an alias of an alias resolved by its id, next to a lookup
\* of an id without an entry.
C19_Witness ==
    /\ out.op = "resolve_by_id"
    /\ tyA = Stub(LAlias2) /\ out.a = Ok(Bool)
    /\ out.b = Err("MissingEntryForTypeId")

\* The concrete types of the universe: no Stub, Variable or open object at
\* any depth.
ConcreteType(t) ==
    \A s \in Subterms(t) : ~is_a_meta(s) /\ ~(s.k = "Object" /\ s.p = "Open")

ConcreteUniverse == {t \in Universe : ConcreteType(t)}

\* t has Opaque or a variadic signature somewhere.
Lenient(t) ==
    \E s \in Subterms(t) : s.k = "Opaque" \/ (s.k = "Signature" /\ s.ar # Fixed)

InnerConstraints(i) == infer(Roots[i], ctx, MaxDepth).constraints
InnerType(i) == infer(Roots[i], ctx, MaxDepth).ty

\* C21: the constraint list follows the traversal order: a call on the
\* context leaves the constraints already there in place and in order, and
\* appends either nothing, or the constraints emitted inside the visited
\* node in their order, or, for constrain(n, expected), first
\* Equality(expected, type of n) and then the constraints emitted inside n.
C21_ConstraintsInTraversalOrder ==
    [][ctx'.st = "ok" =>
          \/ ctx'.constraints = ctx.constraints
          \/ \E i \in 1..Len(Roots) :
                ctx'.constraints = ctx.constraints \o InnerConstraints(i)
          \/ \E i \in 1..Len(Roots), expected \in ConstrainTypes :
                ctx'.constraints = ctx.constraints
                                       \o <<Equality(expected, InnerType(i))>>
                                       \o InnerConstraints(i)]_vars

\* constrain(n, Bool) has been called on a context that already held
\* constraints, for a node that emits constraints of its own.
C21_Witness ==
    /\ phase = "api" /\ ctx.st = "ok" /\ calls = 2
    /\ \E n \in 2..(Len(ctx.constraints) - 1) :
          /\ ctx.constraints[n].a = Bool
          /\ ctx.constraints[n].b # Bool
          /\ ctx.constraints[1].a # Bool

\* The first root of the program when it is a function or a closure.
FirstRoot == Programs[prog][1].inner
CallableWalked ==
    /\ phase = "walk" /\ calls = 1 /\ ctx.st = "ok"
    /\ FirstRoot.node \in {"Function", "Closure"}

\* The constraints of the context that equate the declared return type of
\* the first root with the type of its body.
BodyConstraints ==
    {n \in 1..Len(ctx.constraints) :
        ctx.constraints[n] = Equality(FirstRoot.signature.return_type_hint[1],
                                      ctx.type_env[FirstRoot.body.inner.type_id])}

TwoReferences == {20}

\* C23: every visit of a reference infers the link target again: after the
\* visits of two references to the same function with an unhinted
\* parameter, each reference's type id holds a Signature of the target, the
\* second one being the type the last inference of the target stored for
\* the function, and the parameter type variables of the two Signatures
\* have distinct substitution ids, both registered.
C23_ReferenceReinfersTarget ==
    (prog \in TwoReferences /\ phase = "walk") =>
        /\ ctx.st = "ok"
        /\ calls = 2 =>
            /\ ctx.type_env[140].k = "Signature" /\ ctx.type_env[141].k = "Signature"
            /\ ctx.type_env[140].ret = <<Bool>> /\ ctx.type_env[141].ret = <<Bool>>
            /\ ctx.type_env[140].ch[1].k = "Variable"
            /\ ctx.type_env[141].ch[1].k = "Variable"
            /\ ctx.type_env[140].ch[1].id # ctx.type_env[141].ch[1].id
            /\ {ctx.type_env[140].ch[1].id, ctx.type_env[141].ch[1].id}
                   \subseteq DOMAIN ctx.type_var_substitutions
            /\ ctx.type_env[141] = ctx.type_env[IdentFn.type_id]

\* Both references have been visited.
C23_Witness ==
    /\ prog \in TwoReferences /\ phase = "walk" /\ calls = 2 /\ ctx.st = "ok"
    /\ 140 \in DOMAIN ctx.type_env /\ 141 \in DOMAIN ctx.type_env

\* The call site that is the last root of the program, once the whole
\* program has been walked, and the item its callee expression names.
LastRoot == Programs[prog][Len(Programs[prog])].inner
CallWalked ==
    /\ phase = "walk" /\ calls = Len(Programs[prog]) /\ ctx.st = "ok"
    /\ LastRoot.node = "CallSite"
Callee == SymbolTable[LastRoot.callee_expr.inner.link_id].ast

\* The Signature a call site synthesizes: the stored argument types, the
\* stored overall type, Variadic only for a variadic foreign function.
CalleeType ==
    Signature([i \in 1..Len(LastRoot.arguments) |->
                   ctx.type_env[LastRoot.arguments[i].type_id]],
              ctx.type_env[LastRoot.type_id],
              IF Callee.node = "ForeignFunction" /\ Callee.signature.is_variadic
              THEN Variadic(Len(Callee.signature.parameters)) ELSE Fixed)

\* C24: after the walk of a call site, its type id holds the callee's
\* declared return type with the stub layers stripped, each argument's type
\* id holds the type of the argument's value, callee_type_id holds the
\* synthesized Signature over those argument types in order, and the
\* callee expression has been constrained to that Signature.
C24_CallSiteTypes ==
    CallWalked =>
        /\ Ok(ctx.type_env[LastRoot.type_id])
               = try_strip_all_stub_layers(Callee.signature.return_type_hint[1])
        /\ ctx.type_env[LastRoot.type_id].k # "Stub"
        /\ \A i \in 1..Len(LastRoot.arguments) :
               /\ LastRoot.arguments[i].type_id \in DOMAIN ctx.type_env
               /\ ctx.type_env[LastRoot.arguments[i].type_id]
                      = ctx.type_env[LastRoot.arguments[i].value.inner.type_id]
        /\ ctx.type_env[LastRoot.callee_type_id] = CalleeType
        /\ \E n \in 1..Len(ctx.constraints) :
               ctx.constraints[n]
                   = Equality(CalleeType, ctx.type_env[LastRoot.callee_expr.inner.type_id])

\* A call of a variadic foreign function with three arguments has been
\* walked.
C24_Witness ==
    /\ CallWalked /\ prog = 4
    /\ ctx.type_env[LastRoot.callee_type_id].ar = Variadic(1)
    /\ Len(ctx.type_env[LastRoot.callee_type_id].ch) = 3

\* The Signature types found in the types the context holds.
SignaturesOf(c) == {s \in UNION {Subterms(t) : t \in TypesOf(c)} : s.k = "Signature"}

\* The declared items of a kind.
Declared(kind) ==
    {SymbolTable[l].ast : l \in {x \in DOMAIN SymbolTable : SymbolTable[x].item = kind}}

\* C25: a Signature with arity Variadic{min_fixed} in the walker's output
\* belongs to a foreign function declared variadic whose number of declared
\* parameters is min_fixed; the Signature stored for a function, for a
\* closure or for a foreign function not declared variadic is Fixed.
C25_VariadicOnlyForVariadicForeign ==
    phase = "walk" =>
        /\ \A s \in SignaturesOf(ctx) :
               s.ar # Fixed =>
                   \E f \in Declared("ForeignFunction") :
                       /\ f.signature.is_variadic
                       /\ s.ar = Variadic(Len(f.signature.parameters))
                       /\ s.ret = <<f.signature.return_type_hint[1]>>
        /\ \A f \in Declared("Function") \cup {ClosureLit} :
               f.type_id \in DOMAIN ctx.type_env => ctx.type_env[f.type_id].ar = Fixed
        /\ \A f \in Declared("ForeignFunction") :
               (f.type_id \in DOMAIN ctx.type_env /\ ~f.signature.is_variadic)
                   => ctx.type_env[f.type_id].ar = Fixed

\* The walk of a variadic foreign function and of a call of it.
C25_Witness ==
    /\ phase = "walk" /\ ctx.st = "ok" /\ prog = 4 /\ calls = 2
    /\ ctx.type_env[Printf.type_id].ar = Variadic(1)
    /\ ctx.type_env[CallPrintf.callee_type_id].ar = Variadic(1)

\* The programs that walk one binary operation.
BinaryPrograms == {7, 23, 24, 25}
Operation == Programs[prog][1].inner
OperandType == ctx.type_env[Operation.operand_type_id]
ResultType == ctx.type_env[Operation.type_id]
Constrained(a, b) == \E n \in 1..Len(ctx.constraints) : ctx.constraints[n] = Equality(a, b)

\* What C26 states of the walked operation, the walk having returned.
BinaryOpAsSpecified ==
    /\ OperandType.k = "Variable"
    /\ Constrained(OperandType, ctx.type_env[Operation.left_operand.inner.type_id])
    /\ Constrained(OperandType, ctx.type_env[Operation.right_operand.inner.type_id])
    /\ IF Operation.operator \in {"Add", "Subtract", "Multiply", "Divide"}
       THEN /\ ResultType.k = "Variable" /\ ResultType # OperandType
            /\ Constrained(OperandType, ResultType)
       ELSE /\ ResultType = IF Operation.operator = "Modulo" THEN I64 ELSE Bool
            /\ ~Constrained(OperandType, ResultType)
            /\ ~Constrained(ResultType, OperandType)

\* C26: for every binary operation both operands are constrained to one
\* shared fresh operand variable; the result of an arithmetic operator is
\* a fresh variable constrained equal to the operand variable, the result
\* of modulo is Integer(64, signed), the result of a comparison or logic
\* operator is Bool, and in the last two cases the operand variable is not
\* constrained to the result.
C26_BinaryOpTypes ==
    (prog \in BinaryPrograms /\ phase = "walk" /\ calls = 1) =>
        ctx.st = "ok" /\ BinaryOpAsSpecified

\* The walk of `1 in 2` has not returned.
C26_Witness ==
    prog = 25 /\ phase = "walk" /\ calls = 1 /\ ctx.st = "panic"

\* The programs that walk one instance of a union variant, with a Value, a
\* String and a Singleton payload.
UnionInstancePrograms == {26, 27, 28}

\* C27: the walk of a union variant instance returns, for every payload
\* kind, with the payload constrained according to the variant's shape.
C27_UnionInstanceWalked ==
    (prog \in UnionInstancePrograms /\ phase = "walk" /\ calls = 1) =>
        /\ ctx.st = "ok"
        /\ ctx.constraints # <<>>

\* The walk of an instance with a value payload has not returned.
C27_Witness ==
    prog = 26 /\ phase = "walk" /\ calls = 1 /\ ctx.st = "panic"

\* The variable has no binding: no entry in the environment, or itself.
Unbound(t, env) ==
    t.k = "Variable" /\ (t.id \notin DOMAIN env \/ env[t.id] = t)

\* C28: substitute returns an unresolved variable, one without an entry in
\* the environment or one whose entry is itself, unchanged and as a value.
C28_UnresolvedVariableUnchanged ==
    (phase = "substituted" /\ out.op = "substitute" /\ Unbound(tyA, uni.env)) =>
        out.a = Ok(tyA)

\* substitute has been applied to a variable the environment has no entry
\* for, and has panicked.
C28_Witness ==
    /\ phase = "substituted" /\ out.op = "substitute"
    /\ tyA = VarFree /\ tyA.id \notin DOMAIN uni.env
    /\ out.a.st = "panic"

\* Every stub in t names a type definition of the symbol table.
StubsAreTypeDefs(t) ==
    \A s \in Subterms(t) :
        s.k = "Stub" => s.p \in DOMAIN SymbolTable /\ SymbolTable[s.p].item = "TypeDef"

\* The variable is bound to something other than itself.
Bound(t, env) ==
    t.k = "Variable" /\ t.id \in DOMAIN env /\ env[t.id] # t

\* C29: for a type whose stubs all name type definitions, the type that
\* substitute returns holds no stub and no bound variable, at any depth.
C29_SubstitutedHasNoStubNorBoundVariable ==
    (/\ phase = "substituted" /\ out.op = "substitute"
     /\ StubsAreTypeDefs(tyA) /\ out.a.st = "ok") =>
        \A s \in Subterms(out.a.v) : s.k # "Stub" /\ ~Bound(s, uni.env)

\* substitute has returned the alias of bool as the stub it was given.
C29_Witness ==
    /\ phase = "substituted" /\ out.op = "substitute"
    /\ tyA = Stub(LAlias) /\ StubsAreTypeDefs(tyA)
    /\ out.a = Ok(Stub(LAlias))

\* The links of the stubs in t, and the links a type definition's body names.
LinksOf(t) == {s.p : s \in {x \in Subterms(t) : x.k = "Stub"}}

LinksUnder(link) ==
    IF link \in DOMAIN SymbolTable /\ SymbolTable[link].item = "TypeDef"
    THEN LinksOf(SymbolTable[link].body) ELSE {}

\* The links reached from those of S through at most n type definitions.
RECURSIVE ReachLinks(_, _)
ReachLinks(S, n) ==
    IF n = 0 THEN S ELSE ReachLinks(S \cup UNION {LinksUnder(l) : l \in S}, n - 1)

\* No type definition reached from t reaches itself.
TypeDefsAcyclicFrom(t) ==
    \A l \in ReachLinks(LinksOf(t), Cardinality(DOMAIN SymbolTable)) :
        l \notin ReachLinks(LinksUnder(l), Cardinality(DOMAIN SymbolTable))

\* The substitution ids in t: those of its variables and open objects.
IdsOf(t) ==
    {s.id : s \in {x \in Subterms(t) :
                      x.k = "Variable" \/ (x.k = "Object" /\ x.p = "Open")}}

\* The ids the binding of id names; an id bound to itself is unbound.
IdsUnder(env, id) ==
    IF id \in DOMAIN env /\ ~(env[id].k \in {"Variable", "Object"} /\ env[id].id = id)
    THEN IdsOf(env[id]) ELSE {}

RECURSIVE ReachIds(_, _, _)
ReachIds(env, S, n) ==
    IF n = 0 THEN S
    ELSE ReachIds(env, S \cup UNION {IdsUnder(env, id) : id \in S}, n - 1)

\* No id reaches itself by following bindings.
EnvAcyclic(env) ==
    \A id \in DOMAIN env :
        id \notin ReachIds(env, IdsUnder(env, id), Cardinality(DOMAIN env))

\* The environment is acyclic, and so are the type definitions reached from
\* t and from the bindings.
Acyclic(t, env) ==
    /\ EnvAcyclic(env)
    /\ TypeDefsAcyclicFrom(t)
    /\ \A id \in DOMAIN env : TypeDefsAcyclicFrom(env[id])

\* C30: substitute terminates whenever the substitution environment and the
\* type definitions are acyclic.
C30_SubstituteTerminates ==
    (phase = "substituted" /\ out.op = "substitute" /\ Acyclic(tyA, uni.env)) =>
        out.a.st # "diverge"

\* substitute has followed the binding unification gave a variable, under an
\* acyclic environment, and returned.
C30_Witness ==
    /\ phase = "substituted" /\ out.op = "substitute"
    /\ Acyclic(tyA, uni.env) /\ Bound(tyA, uni.env)
    /\ out.a.st = "ok" /\ out.a.v # tyA

=============================================================================
